---- MODULE Spec2Model ----
(***************************************************************************)
(* Model of the long-running task client of gemini-research-tools-mcp      *)
(* (src/src/core/client.py, class DeepResearchClient): the status mapping, *)
(* the result extraction, the completion-polling loop and the streaming    *)
(* generator, against a remote provider that answers arbitrarily.          *)
(***************************************************************************)
EXTENDS Integers, Sequences, FiniteSets

\* ------------------------------------------------------------ bounds
\* Largest `timeout` argument of poll_until_complete (seconds).
MaxTimeout == 3
\* Largest `poll_interval` argument of poll_until_complete (seconds).
MaxInterval == 2
\* Longest time one remote interactions.get call takes (seconds).
MaxCallDur == 1
\* Longest time asyncio.sleep overshoots the requested duration (seconds).
MaxOversleep == 1
\* Longest chunk sequence the provider delivers on one stream.
MaxChunks == 3
\* Longest output list of an interaction read by a direct call.
MaxOutputs == 3
\* Longest query and longest format instructions, in characters.
MaxLen == 2
\* Longest list of grounding chunks, and of URL metadata entries, in one response.
MaxGrounding == 3
\* Longest urls argument of analyze_urls and search_and_analyze.
MaxUrlCount == 21
\* Tool invocations that can be in progress at once in one process.
MaxThreads == 2
\* Tool invocations one thread (or one event-loop task slot) makes.
MaxCalls == 2
\* Tool invocations one process serves, one after the other.
MaxInvocations == 2
\* Longest wait of the plugin's deep_research, in poll intervals.
MaxPluginPolls == 2
\* Most events a streaming consumer receives from one stream.
MaxEvents == 4

\* ------------------------------------------------------------ values
\* Python's None, and an attribute the object does not have (hasattr is False).
None == "<None>"
Absent == "<absent>"

Handles == {"h1", "h2"}

\* Python truthiness of an optional string attribute.
Truthy(x) == x \notin {None, Absent, ""}

\* models.py ResearchStatusEnum
IN_PROGRESS == "in_progress"
COMPLETED == "completed"
FAILED == "failed"
CANCELLED == "cancelled"
ResearchStatusEnum == {IN_PROGRESS, COMPLETED, FAILED, CANCELLED}

\* Status strings the provider reports: the four the client knows and one it
\* does not.
RemoteStatuses == ResearchStatusEnum \cup {"requires_action"}

\* Values of interaction.error: None, an empty message, a message.
RemoteErrors == {None, "", "quota exceeded"}

\* An Optional[list[str]]: None, or a list.
NoList == [some |-> FALSE, items |-> <<>>]
SomeList(s) == [some |-> TRUE, items |-> s]

\* One output of an interaction is its text attribute (possibly missing, None or
\* empty) and the web uris of its grounding chunks (<<>>: no grounding metadata).
\* The interactions the polling loop waits for: the output lists are a cited
\* report, a report after a draft, a draft before an empty output, an empty
\* output alone and no output at all.
PollReport == [text |-> "report", uris |-> <<"u1">>]
PollDraft == [text |-> "draft", uris |-> <<>>]
PollEmpty == [text |-> "", uris |-> <<>>]
PollOutputLists ==
    {<<>>, <<PollReport>>, <<PollDraft, PollReport>>, <<PollDraft, PollEmpty>>,
     <<PollEmpty>>}
PollInteractions ==
    [id : Handles, status : RemoteStatuses, error : RemoteErrors,
     outputs : PollOutputLists]

\* Every interaction a direct get_result or ask_followup call can read: any
\* status, any error, any list of outputs whose text is missing, None, empty
\* or one of two texts, with or without a cited source.
SeqsUpTo(S, n) == UNION {[1..k -> S] : k \in 0..n}
OutputTexts == {Absent, None, "", "draft", "report"}
OutputUris == {<<>>, <<"u1">>}
Outputs == [text : OutputTexts, uris : OutputUris]
Interactions ==
    [id : Handles, status : RemoteStatuses, error : RemoteErrors,
     outputs : SeqsUpTo(Outputs, MaxOutputs)]

\* models.py ResearchResult before any has been built.
NoResult ==
    [interaction_id |-> None, status |-> None, content |-> None,
     citations |-> NoList, error |-> None]
NoStatus == [interaction_id |-> None, status |-> None, error |-> None]
NoInteraction ==
    [id |-> None, status |-> None, error |-> None, outputs |-> <<>>]

\* A Python str is the sequence of its characters; the characters that matter
\* are a line break and two others.
NL == "<nl>"
Chars == {"a", "b", NL}
Texts == SeqsUpTo(Chars, MaxLen)

\* An Optional[str] argument: None, or a string.
NoText == [some |-> FALSE, text |-> <<>>]
SomeText(t) == [some |-> TRUE, text |-> t]

\* The keyword arguments of one interactions.create call; none made yet.
NoRequest ==
    [input |-> <<>>, agent |-> None, background |-> FALSE, stream |-> FALSE]

\* What generate_content did when no call has been made.
NoReply ==
    [raised |-> FALSE, message |-> None, text |-> None, queries |-> <<>>,
     chunks |-> <<>>, supports |-> <<>>, url_metadata |-> <<>>]

\* The mapping MCP stream_research returns, before it has returned; and the
\* dashboard's session_state.current_research when it is None.
NoReport ==
    [interaction_id |-> None, status |-> None, content |-> NoText,
     thoughts |-> <<>>, error |-> NoText]
NoResearch ==
    [exists |-> FALSE, interaction_id |-> None, status |-> None,
     content |-> NoText, error |-> NoText]

VARIABLES
    remote,         \* the interaction as the provider holds it now
    now,            \* wall clock, seconds
    pc,             \* poll_until_complete: "status", "result", "sleep", "done"
    interaction_id, \* poll_until_complete's argument
    poll_interval,  \* poll_until_complete's argument
    timeout,        \* poll_until_complete's argument
    start_time,     \* poll_until_complete's local
    status,         \* poll_until_complete's local: the last get_status result
    outcome,        \* "none", "returned", "TimeoutError", "RemoteError"
    result,         \* the ResearchResult returned
    observed,       \* history: the interaction the last get_status call read
    fetched,        \* history: the interaction the loop's get_result call read
    first_status,   \* history: the status the first poll returned
    terminal_at,    \* history: when a poll first returned a terminal status, or -1
    trace,          \* history: the polls and sleeps of the call, in order
    stream_pc,      \* stream_research: "running", "exhausted", "raised"
    delivered,      \* the chunks the provider's stream has yielded so far
    stream_id,      \* stream_research's local interaction_id
    last_event_id,  \* stream_research's local last_event_id
    events,         \* the ResearchEvents the generator has yielded, in order
    cause,          \* history: for each event, the index of the chunk behind it
    fetches,        \* history: the get_result calls the generator has made
    call_pc,        \* a direct call: "off", "ready", "result", "answer", "raised"
    answer,         \* the string ask_followup returned
    build_pc,       \* prompt building: "off", "ready", "built", "sent"
    query,          \* the query argument
    format_instructions, \* the format_instructions argument
    built,          \* the string _build_input returned to a direct caller
    sent,           \* the interactions.create request the provider received
    qs_pc,          \* QuickSearchClient call: "off", "ready", "returned", "raised"
    qs_op,          \* which QuickSearchClient operation is called
    urls,           \* the urls argument
    reply,          \* what generate_content did: raised, or the response
    qs_result,      \* the QuickSearchResult or UrlAnalysisResult returned
    remote_calls,   \* how many generate_content calls the operation made
    frontend,       \* which tool module the process runs: "mcp", "adk", "off"
    client_global,  \* the module globals _deep_research_client, _quick_search_client
    constructed,    \* history: the instances constructed so far, per class
    threads,        \* each tool invocation's position and locals
    tool_pc,        \* a tool invocation: "idle", "getter", "call", "wait", "returned", "raised"
    tool,           \* the tool invoked: front-end, name, wait_for_completion
    api_key,        \* whether GEMINI_API_KEY is set in the process
    tool_client,    \* whether the module global holds a DeepResearchClient
    tool_handle,    \* the interaction id start_research returned to the tool
    client_calls,   \* history: the client methods the invocation has called
    returned,       \* the mapping the tool returned
    invocations,    \* history: how many invocations have ended
    plugin_pc,      \* a plugin tool's _invoke: "off", "ready", "client", "call",
                    \* "poll", "sleep", "text", "except", "done"
    plugin_tool,    \* which plugin tool is invoked
    params,         \* its tool_parameters, after the .get defaults
    credentials,    \* whether the runtime holds a gemini_api_key
    plugin_reply,   \* the interaction the last interactions.get call read
    plugin_elapsed, \* seconds since _invoke's start_time
    plugin_path,    \* which pair of messages _invoke is yielding
    plugin_error,   \* str(e) of the exception _invoke caught
    messages,       \* the messages the invocation has yielded, in order
    consumer_pc,    \* a streaming consumer: "off", "consuming", "returned"
    consumer,       \* which consumer: "mcp", "dashboard"
    incoming,       \* the ResearchEvents the consumer has received, in order
    stream_ends,    \* the client's generator: "open", "exhausted", "raised"
    consumer_id,    \* MCP stream_research's local interaction_id
    accumulated,    \* content_parts joined / session_state.accumulated_content
    thoughts,       \* the thoughts list
    current_research, \* the dashboard's session_state.current_research
    consumer_fetches, \* history: the get_result calls the dashboard has made
    report          \* the mapping MCP stream_research returned

pollVars ==
    <<remote, now, pc, interaction_id, poll_interval, timeout, start_time,
      status, outcome, result, observed, fetched, first_status, terminal_at,
      trace>>

streamVars ==
    <<stream_pc, delivered, stream_id, last_event_id, events, cause, fetches>>

resultVars == <<call_pc, answer>>

inputVars == <<build_pc, query, format_instructions, built, sent>>

quickVars == <<qs_pc, qs_op, urls, reply, qs_result, remote_calls>>

clientVars == <<frontend, client_global, constructed, threads>>

toolVars ==
    <<tool_pc, tool, api_key, tool_client, tool_handle, client_calls, returned,
      invocations>>

pluginVars ==
    <<plugin_pc, plugin_tool, params, credentials, plugin_reply, plugin_elapsed,
      plugin_path, plugin_error, messages>>

consumerVars ==
    <<consumer_pc, consumer, incoming, stream_ends, consumer_id, accumulated,
      thoughts, current_research, consumer_fetches, report>>

frontVars == <<toolVars, pluginVars, consumerVars>>

otherVars == <<resultVars, inputVars, quickVars, clientVars, frontVars>>

vars == <<pollVars, streamVars, otherVars>>

\* No direct get_result or ask_followup call is in progress.
ResultOff == call_pc = "off" /\ answer = None

\* No prompt is being built.
InputOff ==
    /\ build_pc = "off"
    /\ query = <<>>
    /\ format_instructions = NoText
    /\ built = <<>>
    /\ sent = NoRequest

\* No QuickSearchClient call is in progress.
QuickOff ==
    /\ qs_pc = "off"
    /\ qs_op = None
    /\ urls = <<>>
    /\ reply = NoReply
    /\ qs_result = None
    /\ remote_calls = 0

\* No tool is being invoked.
ToolsOff ==
    /\ tool_pc = "off"
    /\ tool = None
    /\ api_key = FALSE
    /\ tool_client = FALSE
    /\ tool_handle = None
    /\ client_calls = <<>>
    /\ returned = None
    /\ invocations = 0

\* No plugin tool is being invoked.
PluginOff ==
    /\ plugin_pc = "off"
    /\ plugin_tool = None
    /\ params = None
    /\ credentials = FALSE
    /\ plugin_reply = NoInteraction
    /\ plugin_elapsed = 0
    /\ plugin_path = None
    /\ plugin_error = None
    /\ messages = <<>>

\* No streaming consumer is running.
ConsumerOff ==
    /\ consumer_pc = "off"
    /\ consumer = None
    /\ incoming = <<>>
    /\ stream_ends = "open"
    /\ consumer_id = None
    /\ accumulated = <<>>
    /\ thoughts = <<>>
    /\ current_research = NoResearch
    /\ consumer_fetches = <<>>
    /\ report = NoReport

\* No front-end is running.
FrontOff == ToolsOff /\ PluginOff /\ ConsumerOff

\* No tool module is loaded.
ClientsOff ==
    /\ frontend = "off"
    /\ client_global = <<>>
    /\ constructed = <<>>
    /\ threads = <<>>

\* ------------------------------------------------------------ get_status
\* Mutant: an unrecognized remote status is passed through unmapped.
status_map_passthrough(s) == s

\* status_map.get(interaction.status, ResearchStatusEnum.IN_PROGRESS)
status_map(s) ==
    IF s \in ResearchStatusEnum THEN s ELSE IN_PROGRESS

\* str(error) if error else None
error_str(e) == IF Truthy(e) THEN e ELSE None

get_status(id, interaction) ==
    [interaction_id |-> id,
     status |-> status_map(interaction.status),
     error |-> error_str(interaction.error)]

\* ------------------------------------------------------------ get_result
\* Mutant: the outputs are scanned oldest-first.
RECURSIVE first_text(_)
first_text(outputs) ==
    IF outputs = <<>> THEN None
    ELSE IF Truthy(outputs[1].text) THEN outputs[1].text
    ELSE first_text(Tail(outputs))

\* Mutant: only the newest output is looked at.
newest_output_text(outputs) ==
    IF outputs = <<>> THEN None
    ELSE IF Truthy(outputs[Len(outputs)].text) THEN outputs[Len(outputs)].text
    ELSE None

\* for output in reversed(outputs): if hasattr(output, "text") and output.text
RECURSIVE last_text(_)
last_text(outputs) ==
    IF outputs = <<>> THEN None
    ELSE IF Truthy(outputs[Len(outputs)].text) THEN outputs[Len(outputs)].text
    ELSE last_text(SubSeq(outputs, 1, Len(outputs) - 1))

RECURSIVE all_uris(_)
all_uris(outputs) ==
    IF outputs = <<>> THEN <<>>
    ELSE outputs[1].uris \o all_uris(Tail(outputs))

\* return citations if citations else None
extract_citations(interaction) ==
    IF all_uris(interaction.outputs) = <<>> THEN NoList
    ELSE SomeList(all_uris(interaction.outputs))

\* Mutant: the outputs are read whatever the status.
get_result_any_status(id, interaction) ==
    LET has == interaction.outputs # <<>>
    IN  [interaction_id |-> id,
         status |-> status_map(interaction.status),
         content |-> IF has THEN last_text(interaction.outputs) ELSE None,
         citations |-> IF has THEN extract_citations(interaction) ELSE NoList,
         error |-> error_str(interaction.error)]

get_result(id, interaction) ==
    LET st == status_map(interaction.status)
        has == st = COMPLETED /\ interaction.outputs # <<>>
    IN  [interaction_id |-> id,
         status |-> st,
         content |-> IF has THEN last_text(interaction.outputs) ELSE None,
         citations |-> IF has THEN extract_citations(interaction) ELSE NoList,
         error |-> error_str(interaction.error)]

\* ------------------------------------------------------------ poll_until_complete
\* Mutant: a cancelled task is not treated as finished.
IsTerminalFailure_failed_only(s) == s = FAILED

\* status.status in (ResearchStatusEnum.FAILED, ResearchStatusEnum.CANCELLED)
IsTerminalFailure(s) == s \in {FAILED, CANCELLED}

\* Mutant: the timeout is compared strictly.
TimedOut_strict(elapsed, limit) == elapsed > limit

\* elapsed >= timeout
TimedOut(elapsed, limit) == elapsed >= limit

\* Mutant: the sleep grows with the number of polls made (linear backoff).
SleepDuration_backoff(interval, polls) == interval * polls

\* the argument of asyncio.sleep: poll_interval, whatever the iteration
SleepDuration(interval, polls) == interval

\* ResearchResult(interaction_id=..., status=status.status, error=status.error)
FailureResult(id, st) ==
    [interaction_id |-> id, status |-> st.status, content |-> None,
     citations |-> NoList, error |-> st.error]

Polls == SelectSeq(trace, LAMBDA e : e.op = "poll")
Sleeps == SelectSeq(trace, LAMBDA e : e.op = "sleep")

InitPoll ==
    /\ remote \in PollInteractions
    /\ now = 0
    /\ pc = "status"
    /\ interaction_id \in Handles
    /\ poll_interval \in 1..MaxInterval
    /\ timeout \in 1..MaxTimeout
    /\ start_time = 0
    /\ status = NoStatus
    /\ outcome = "none"
    /\ result = NoResult
    /\ observed = NoInteraction
    /\ fetched = NoInteraction
    /\ first_status = None
    /\ terminal_at = -1
    /\ trace = <<>>
    /\ stream_pc = "exhausted"
    /\ delivered = <<>>
    /\ stream_id = None
    /\ last_event_id = None
    /\ events = <<>>
    /\ cause = <<>>
    /\ fetches = <<>>
    /\ ResultOff
    /\ InputOff
    /\ QuickOff
    /\ ClientsOff
    /\ FrontOff

\* The provider changes the interaction while the client is suspended.
RemoteChange ==
    /\ pc # "done"
    /\ remote' \in [id : {remote.id}, status : RemoteStatuses,
                    error : RemoteErrors, outputs : {remote.outputs}]
    /\ remote' # remote
    /\ UNCHANGED <<streamVars, otherVars>>
    /\ UNCHANGED <<now, pc, interaction_id, poll_interval, timeout, start_time,
                   status, outcome, result, observed, fetched, first_status,
                   terminal_at, trace>>

\* await self.get_status(interaction_id) raises: the exception leaves the loop.
PollStatusFails ==
    /\ pc = "status"
    /\ \E d \in 0..MaxCallDur :
        /\ now' = now + d
        /\ trace' = Append(trace, [op |-> "poll", at |-> now, dur |-> d,
                                   till |-> now + d, ok |-> FALSE])
    /\ pc' = "done"
    /\ outcome' = "RemoteError"
    /\ UNCHANGED <<streamVars, otherVars>>
    /\ UNCHANGED <<remote, interaction_id, poll_interval, timeout, start_time,
                   status, result, observed, fetched, first_status, terminal_at>>

\* One iteration of the while loop, from get_status to the next await.
PollStatus ==
    /\ pc = "status"
    /\ \E d \in 0..MaxCallDur :
        LET st == get_status(interaction_id, remote)
            elapsed == (now + d) - start_time
        IN  /\ now' = now + d
            /\ trace' = Append(trace, [op |-> "poll", at |-> now, dur |-> d,
                                       till |-> now + d, ok |-> TRUE])
            /\ status' = st
            /\ observed' = remote
            /\ first_status' = IF trace = <<>> THEN st.status ELSE first_status
            /\ terminal_at' =
                 IF terminal_at = -1 /\ st.status \in {COMPLETED, FAILED, CANCELLED}
                 THEN now + d ELSE terminal_at
            /\ IF st.status = COMPLETED
               THEN /\ pc' = "result"
                    /\ UNCHANGED <<outcome, result>>
               ELSE IF IsTerminalFailure(st.status)
               THEN /\ pc' = "done"
                    /\ outcome' = "returned"
                    /\ result' = FailureResult(interaction_id, st)
               ELSE IF TimedOut(elapsed, timeout)
               THEN /\ pc' = "done"
                    /\ outcome' = "TimeoutError"
                    /\ UNCHANGED result
               ELSE /\ pc' = "sleep"
                    /\ UNCHANGED <<outcome, result>>
    /\ UNCHANGED <<streamVars, otherVars>>
    /\ UNCHANGED <<remote, interaction_id, poll_interval, timeout, start_time,
                   fetched>>

\* return await self.get_result(interaction_id)
FetchResult ==
    /\ pc = "result"
    /\ \E d \in 0..MaxCallDur : now' = now + d
    /\ fetched' = remote
    /\ result' = get_result(interaction_id, remote)
    /\ outcome' = "returned"
    /\ pc' = "done"
    /\ UNCHANGED <<streamVars, otherVars>>
    /\ UNCHANGED <<remote, interaction_id, poll_interval, timeout, start_time,
                   status, observed, first_status, terminal_at, trace>>

\* await self.get_result(interaction_id) raises.
FetchResultFails ==
    /\ pc = "result"
    /\ \E d \in 0..MaxCallDur : now' = now + d
    /\ outcome' = "RemoteError"
    /\ pc' = "done"
    /\ UNCHANGED <<streamVars, otherVars>>
    /\ UNCHANGED <<remote, interaction_id, poll_interval, timeout, start_time,
                   status, result, observed, fetched, first_status, terminal_at,
                   trace>>

\* await asyncio.sleep(poll_interval): at least the requested duration passes.
Sleep ==
    /\ pc = "sleep"
    /\ \E over \in 0..MaxOversleep :
        LET dur == SleepDuration(poll_interval, Len(Polls))
        IN  /\ now' = now + dur + over
            /\ trace' = Append(trace, [op |-> "sleep", at |-> now, dur |-> dur,
                                       till |-> now + dur + over, ok |-> TRUE])
    /\ pc' = "status"
    /\ UNCHANGED <<streamVars, otherVars>>
    /\ UNCHANGED <<remote, interaction_id, poll_interval, timeout, start_time,
                   status, outcome, result, observed, fetched, first_status,
                   terminal_at>>

NextPoll ==
    \/ RemoteChange
    \/ PollStatus
    \/ PollStatusFails
    \/ FetchResult
    \/ FetchResultFails
    \/ Sleep

SpecPoll == InitPoll /\ [][NextPoll]_vars

\* The event loop resumes the coroutine whenever the call it awaits is over:
\* a status call, the result call and the sleep each end.
\* The waits whose end is checked are those for one handle and an interaction
\* without outputs: neither is read by the loop's conditions.
InitPollFair ==
    /\ InitPoll
    /\ interaction_id = "h1"
    /\ remote.id = "h1"
    /\ remote.outputs = <<>>

SpecPollFair ==
    /\ InitPollFair
    /\ [][NextPoll]_vars
    /\ WF_vars(PollStatus \/ PollStatusFails)
    /\ WF_vars(FetchResult \/ FetchResultFails)
    /\ WF_vars(Sleep)

\* ------------------------------------------------------------ stream_research
\* A chunk of the provider's stream. iid is chunk.interaction.id; delta_type is
\* chunk.delta.type (Absent: the chunk has no delta); text is delta.text, or
\* delta.content.text for a thought summary; has_interaction and outputs are
\* the interaction of a completion chunk; error is the chunk's error attribute.
Chunk(et, eid, iid, dt, text, hasI, outs, err) ==
    [event_type |-> et, event_id |-> eid, iid |-> iid, delta_type |-> dt,
     text |-> text, has_interaction |-> hasI, outputs |-> outs, error |-> err]

EventIds == {None, "e1"}

StartChunks ==
    {Chunk("interaction.start", e, h, Absent, Absent, TRUE, <<>>, Absent) :
        e \in EventIds, h \in Handles}
DeltaChunks ==
    {Chunk("content.delta", e, Absent, d[1], d[2], FALSE, <<>>, Absent) :
        e \in EventIds,
        d \in {<<"text", "foo">>, <<"text", "bar">>,
               <<"thought_summary", "idea">>, <<"thought_summary", Absent>>,
               <<"image", Absent>>, <<Absent, Absent>>}}
CompleteChunks ==
    {Chunk("interaction.complete", e, Absent, Absent, Absent, o[1], o[2], Absent) :
        e \in EventIds,
        o \in {<<FALSE, <<>> >>, <<TRUE, <<PollEmpty>> >>,
               <<TRUE, <<PollDraft, PollReport>> >>}}
ErrorChunks ==
    {Chunk("error", e, Absent, Absent, Absent, FALSE, <<>>, err) :
        e \in EventIds, err \in {Absent, None, "boom"}}
OtherChunks ==
    {Chunk("interaction.status_update", e, Absent, Absent, Absent, FALSE, <<>>,
           Absent) : e \in EventIds}
Chunks ==
    StartChunks \cup DeltaChunks \cup CompleteChunks \cup ErrorChunks
        \cup OtherChunks

\* What the get_result call of the generator finds: the call fails, or reads
\* one of these interactions.
StreamFetched ==
    {[id |-> "h1", status |-> COMPLETED, error |-> None,
      outputs |-> <<[text |-> "fetched", uris |-> <<>>]>>],
     [id |-> "h1", status |-> COMPLETED, error |-> None, outputs |-> <<>>],
     [id |-> "h1", status |-> IN_PROGRESS, error |-> None,
      outputs |-> <<[text |-> "fetched", uris |-> <<>>]>>]}

\* models.py ResearchEvent
ResearchEvent(type, id, content, eid) ==
    [event_type |-> type, interaction_id |-> id, content |-> content,
     event_id |-> eid]

\* Python's str() of a value that is None, and of a delta object.
PyStr(x) == IF x = None THEN "None" ELSE x
DeltaRepr == "<delta>"

\* if chunk.event_type == "interaction.start": interaction_id = chunk.interaction.id
new_interaction_id(chunk, id) ==
    IF chunk.event_type = "interaction.start" THEN chunk.iid ELSE id

\* if hasattr(chunk, "event_id") and chunk.event_id: last_event_id = chunk.event_id
new_last_event_id(chunk, eid) ==
    IF Truthy(chunk.event_id) THEN chunk.event_id ELSE eid

\* Mutant: a thought summary without content.text is dropped.
delta_events_drop(chunk, id, eid) ==
    IF chunk.delta_type = "text"
    THEN <<ResearchEvent("text_delta", id, chunk.text, eid)>>
    ELSE IF chunk.delta_type = "thought_summary" /\ chunk.text # Absent
    THEN <<ResearchEvent("thought", id, chunk.text, eid)>>
    ELSE <<>>

\* The events of a content.delta chunk.
delta_events(chunk, id, eid) ==
    IF chunk.delta_type = "text"
    THEN <<ResearchEvent("text_delta", id, chunk.text, eid)>>
    ELSE IF chunk.delta_type = "thought_summary"
    THEN <<ResearchEvent("thought", id,
                         IF chunk.text # Absent THEN chunk.text ELSE DeltaRepr,
                         eid)>>
    ELSE <<>>

\* final_content as read from the completion chunk's own interaction.
own_content(chunk) ==
    IF chunk.has_interaction /\ chunk.outputs # <<>>
    THEN last_text(chunk.outputs)
    ELSE None

\* Mutant: the result is fetched whenever the handle is known.
needs_fetch_always(final_content, id) == Truthy(id)

\* if final_content is None and interaction_id
needs_fetch(final_content, id) == final_content = None /\ Truthy(id)

\* str(getattr(chunk, "error", "Unknown error"))
error_msg(chunk) ==
    IF chunk.error = Absent THEN "Unknown error" ELSE PyStr(chunk.error)

\* if result.content: final_content = result.content
after_fetch(final_content, content) ==
    IF Truthy(content) THEN content ELSE final_content

\* The events one chunk makes the generator yield, given the content the
\* get_result call returned if one was made (None: no call, or it failed).
chunk_events(chunk, id, eid, fetched_content) ==
    IF chunk.event_type = "interaction.start"
    THEN <<ResearchEvent("start", id, None, None)>>
    ELSE IF chunk.event_type = "content.delta"
    THEN delta_events(chunk, id, eid)
    ELSE IF chunk.event_type = "interaction.complete"
    THEN <<ResearchEvent("complete", id,
                         after_fetch(own_content(chunk), fetched_content), eid)>>
    ELSE IF chunk.event_type = "error"
    THEN <<ResearchEvent("error", id, error_msg(chunk), eid)>>
    ELSE <<>>

InitStream ==
    /\ remote = NoInteraction
    /\ now = 0
    /\ pc = "done"
    /\ interaction_id = None
    /\ poll_interval = 0
    /\ timeout = 0
    /\ start_time = 0
    /\ status = NoStatus
    /\ outcome = "none"
    /\ result = NoResult
    /\ observed = NoInteraction
    /\ fetched = NoInteraction
    /\ first_status = None
    /\ terminal_at = -1
    /\ trace = <<>>
    /\ stream_pc = "running"
    /\ delivered = <<>>
    /\ stream_id = None
    /\ last_event_id = None
    /\ events = <<>>
    /\ cause = <<>>
    /\ fetches = <<>>
    /\ ResultOff
    /\ InputOff
    /\ QuickOff
    /\ ClientsOff
    /\ FrontOff

\* The body of `for chunk in stream` for a chunk that needs no get_result call.
Deliver ==
    /\ stream_pc = "running"
    /\ Len(delivered) < MaxChunks
    /\ \E chunk \in Chunks :
        LET id == new_interaction_id(chunk, stream_id)
            eid == new_last_event_id(chunk, last_event_id)
            new == chunk_events(chunk, id, eid, None)
        IN  /\ ~(chunk.event_type = "interaction.complete"
                 /\ needs_fetch(own_content(chunk), id))
            /\ delivered' = Append(delivered, chunk)
            /\ stream_id' = id
            /\ last_event_id' = eid
            /\ events' = events \o new
            /\ cause' = cause \o [i \in 1..Len(new) |-> Len(delivered) + 1]
    /\ UNCHANGED fetches
    /\ UNCHANGED <<stream_pc, pollVars, otherVars>>

\* The body for a completion chunk whose own outputs give no content: one
\* get_result call, which reads some interaction.
DeliverFetch ==
    /\ stream_pc = "running"
    /\ Len(delivered) < MaxChunks
    /\ \E chunk \in CompleteChunks, interaction \in StreamFetched :
        LET id == new_interaction_id(chunk, stream_id)
            eid == new_last_event_id(chunk, last_event_id)
            res == get_result(id, interaction)
            new == chunk_events(chunk, id, eid, res.content)
        IN  /\ needs_fetch(own_content(chunk), id)
            /\ delivered' = Append(delivered, chunk)
            /\ stream_id' = id
            /\ last_event_id' = eid
            /\ events' = events \o new
            /\ cause' = cause \o [i \in 1..Len(new) |-> Len(delivered) + 1]
            /\ fetches' = Append(fetches, [chunk |-> Len(delivered) + 1,
                                           failed |-> FALSE,
                                           content |-> res.content])
    /\ UNCHANGED <<stream_pc, pollVars, otherVars>>

\* The same, the get_result call raising: except Exception: pass.
DeliverFetchFails ==
    /\ stream_pc = "running"
    /\ Len(delivered) < MaxChunks
    /\ \E chunk \in CompleteChunks :
        LET id == new_interaction_id(chunk, stream_id)
            eid == new_last_event_id(chunk, last_event_id)
            new == chunk_events(chunk, id, eid, None)
        IN  /\ needs_fetch(own_content(chunk), id)
            /\ delivered' = Append(delivered, chunk)
            /\ stream_id' = id
            /\ last_event_id' = eid
            /\ events' = events \o new
            /\ cause' = cause \o [i \in 1..Len(new) |-> Len(delivered) + 1]
            /\ fetches' = Append(fetches, [chunk |-> Len(delivered) + 1,
                                           failed |-> TRUE,
                                           content |-> None])
    /\ UNCHANGED <<stream_pc, pollVars, otherVars>>

\* The provider's stream ends: the for loop, and with it the generator, finishes.
EndOfStream ==
    /\ stream_pc = "running"
    /\ stream_pc' = "exhausted"
    /\ UNCHANGED <<delivered, stream_id, last_event_id, events, cause, fetches,
                   pollVars, otherVars>>

\* Iterating the provider's stream raises: the exception leaves the generator.
StreamRaises ==
    /\ stream_pc = "running"
    /\ stream_pc' = "raised"
    /\ UNCHANGED <<delivered, stream_id, last_event_id, events, cause, fetches,
                   pollVars, otherVars>>

NextStream ==
    \/ Deliver
    \/ DeliverFetch
    \/ DeliverFetchFails
    \/ EndOfStream
    \/ StreamRaises

SpecStream == InitStream /\ [][NextStream]_vars

\* ------------------------------------------------------------ direct calls
\* Mutant: the follow-up interaction's outputs are scanned oldest-first.
ask_followup_oldest_first(interaction) ==
    IF first_text(interaction.outputs) = None THEN ""
    ELSE first_text(interaction.outputs)

\* for output in reversed(interaction.outputs): ... return output.text;
\* return ""
ask_followup(interaction) ==
    IF last_text(interaction.outputs) = None THEN ""
    ELSE last_text(interaction.outputs)

\* A caller holds a handle; the provider holds any interaction at all.
InitResult ==
    /\ remote \in Interactions
    /\ now = 0
    /\ pc = "done"
    /\ interaction_id \in Handles
    /\ poll_interval = 0
    /\ timeout = 0
    /\ start_time = 0
    /\ status = NoStatus
    /\ outcome = "none"
    /\ result = NoResult
    /\ observed = NoInteraction
    /\ fetched = NoInteraction
    /\ first_status = None
    /\ terminal_at = -1
    /\ trace = <<>>
    /\ stream_pc = "exhausted"
    /\ delivered = <<>>
    /\ stream_id = None
    /\ last_event_id = None
    /\ events = <<>>
    /\ cause = <<>>
    /\ fetches = <<>>
    /\ call_pc = "ready"
    /\ answer = None
    /\ InputOff
    /\ QuickOff
    /\ ClientsOff
    /\ FrontOff

\* await client.get_result(interaction_id): interactions.get answers with the
\* interaction the provider holds.
GetResult ==
    /\ call_pc = "ready"
    /\ call_pc' = "result"
    /\ fetched' = remote
    /\ result' = get_result(interaction_id, remote)
    /\ UNCHANGED <<remote, now, pc, interaction_id, poll_interval, timeout,
                   start_time, status, outcome, observed, first_status,
                   terminal_at, trace, answer>>
    /\ UNCHANGED <<streamVars, inputVars, quickVars, clientVars, frontVars>>

\* await client.ask_followup(interaction_id, question): interactions.create
\* answers with the follow-up interaction, held by the provider.
AskFollowup ==
    /\ call_pc = "ready"
    /\ call_pc' = "answer"
    /\ fetched' = remote
    /\ answer' = ask_followup(remote)
    /\ UNCHANGED <<remote, now, pc, interaction_id, poll_interval, timeout,
                   start_time, status, outcome, result, observed, first_status,
                   terminal_at, trace>>
    /\ UNCHANGED <<streamVars, inputVars, quickVars, clientVars, frontVars>>

\* The remote call of either operation raises: the exception reaches the caller.
DirectCallFails ==
    /\ call_pc = "ready"
    /\ call_pc' = "raised"
    /\ UNCHANGED <<pollVars, answer>>
    /\ UNCHANGED <<streamVars, inputVars, quickVars, clientVars, frontVars>>

NextResult ==
    \/ GetResult
    \/ AskFollowup
    \/ DirectCallFails

SpecResult == InitResult /\ [][NextResult]_vars

\* ------------------------------------------------------------ _build_input
\* DeepResearchClient.SYSTEM_PROMPT_JA, the fixed language directive, as one
\* character no query contains.
SYSTEM_PROMPT_JA == <<"<SYSTEM_PROMPT_JA>">>
AGENT_NAME == "deep-research-pro-preview-12-2025"

\* The separator "\n\n".
BlankLine == <<NL, NL>>

\* sep.join(parts)
RECURSIVE Join(_, _)
Join(parts, sep) ==
    IF parts = <<>> THEN <<>>
    ELSE IF Len(parts) = 1 THEN parts[1]
    ELSE parts[1] \o sep \o Join(Tail(parts), sep)

\* Mutant: the parts are the query and the format instructions alone.
build_input_without_directive(q, fmt) ==
    Join(IF fmt.some /\ fmt.text # <<>> THEN <<q, fmt.text>> ELSE <<q>>,
         BlankLine)

\* parts = [SYSTEM_PROMPT_JA, query]; if format_instructions: parts.append(..)
build_input(q, fmt) ==
    Join(IF fmt.some /\ fmt.text # <<>>
         THEN <<SYSTEM_PROMPT_JA, q, fmt.text>>
         ELSE <<SYSTEM_PROMPT_JA, q>>,
         BlankLine)

InitInput ==
    /\ remote = NoInteraction
    /\ now = 0
    /\ pc = "done"
    /\ interaction_id = None
    /\ poll_interval = 0
    /\ timeout = 0
    /\ start_time = 0
    /\ status = NoStatus
    /\ outcome = "none"
    /\ result = NoResult
    /\ observed = NoInteraction
    /\ fetched = NoInteraction
    /\ first_status = None
    /\ terminal_at = -1
    /\ trace = <<>>
    /\ stream_pc = "exhausted"
    /\ delivered = <<>>
    /\ stream_id = None
    /\ last_event_id = None
    /\ events = <<>>
    /\ cause = <<>>
    /\ fetches = <<>>
    /\ ResultOff
    /\ build_pc = "ready"
    /\ query \in Texts
    /\ format_instructions \in {NoText} \cup {SomeText(t) : t \in Texts}
    /\ built = <<>>
    /\ sent = NoRequest
    /\ QuickOff
    /\ ClientsOff
    /\ FrontOff

\* client._build_input(query, format_instructions), called directly.
BuildInput ==
    /\ build_pc = "ready"
    /\ build_pc' = "built"
    /\ built' = build_input(query, format_instructions)
    /\ UNCHANGED <<query, format_instructions, sent>>
    /\ UNCHANGED <<pollVars, streamVars, resultVars, quickVars, clientVars, frontVars>>

\* start_research up to its interactions.create call.
StartResearch ==
    /\ build_pc = "ready"
    /\ build_pc' = "sent"
    /\ sent' = [input |-> build_input(query, format_instructions),
                agent |-> AGENT_NAME, background |-> TRUE, stream |-> FALSE]
    /\ UNCHANGED <<query, format_instructions, built>>
    /\ UNCHANGED <<pollVars, streamVars, resultVars, quickVars, clientVars, frontVars>>

\* stream_research up to its interactions.create call.
StreamResearch ==
    /\ build_pc = "ready"
    /\ build_pc' = "sent"
    /\ sent' = [input |-> build_input(query, format_instructions),
                agent |-> AGENT_NAME, background |-> TRUE, stream |-> TRUE]
    /\ UNCHANGED <<query, format_instructions, built>>
    /\ UNCHANGED <<pollVars, streamVars, resultVars, quickVars, clientVars, frontVars>>

NextInput ==
    \/ BuildInput
    \/ StartResearch
    \/ StreamResearch

SpecInput == InitInput /\ [][NextInput]_vars

\* ------------------------------------------------------------ QuickSearchClient
\* if len(urls) > 20
MaxUrlsPerRequest == 20
UrlLimitError == "Maximum 20 URLs allowed per request"

QuickOps == {"quick_search", "analyze_urls", "search_and_analyze"}

\* The urls argument: n distinct URLs, the i-th one written i.
UrlLists == {[i \in 1..n |-> i] : n \in 0..MaxUrlCount}

\* A grounding chunk: without a web source, or with one whose uri and title
\* are a string, None, or missing.
NoWebChunk == [web |-> FALSE, uri |-> Absent, title |-> Absent]
WebChunk(uri, title) == [web |-> TRUE, uri |-> uri, title |-> title]
GroundingChunks ==
    {NoWebChunk, WebChunk("a", "A"), WebChunk("b", None),
     WebChunk(Absent, Absent), WebChunk(None, "A")}

\* A grounding support: without a segment, or with one whose start_index is
\* an index or None.
SupportValues ==
    {[segment |-> FALSE, text |-> Absent, start_index |-> Absent],
     [segment |-> TRUE, text |-> "answer", start_index |-> "i0"],
     [segment |-> TRUE, text |-> "answer", start_index |-> None]}

\* An entry of url_context_metadata.url_metadata.
UrlMetaValues ==
    {[retrieved_url |-> "a", url_retrieval_status |-> "SUCCESS"],
     [retrieved_url |-> Absent, url_retrieval_status |-> Absent],
     [retrieved_url |-> None, url_retrieval_status |-> "ERROR"]}

\* The messages of the exceptions generate_content raises.
RemoteMessages == {"", "503 unavailable"}

\* What generate_content does for an operation: it raises, or it returns a
\* response.  A response without candidates or without metadata is one whose
\* lists are empty.
RaisedReplies ==
    [raised : {TRUE}, message : RemoteMessages, text : {None},
     queries : {<<>>}, chunks : {<<>>}, supports : {<<>>},
     url_metadata : {<<>>}]
GroundedReplies ==
    [raised : {FALSE}, message : {None}, text : {None, "", "answer"},
     queries : {<<>>, <<"q1", "q2">>},
     chunks : SeqsUpTo(GroundingChunks, MaxGrounding),
     supports : SeqsUpTo(SupportValues, 1),
     url_metadata : {<<>>}]
UrlContextReplies ==
    [raised : {FALSE}, message : {None}, text : {None, "", "answer"},
     queries : {<<>>}, chunks : {<<>>}, supports : {<<>>},
     url_metadata : SeqsUpTo(UrlMetaValues, MaxGrounding)]
RepliesFor(op) ==
    RaisedReplies \cup
        (IF op = "analyze_urls" THEN UrlContextReplies ELSE GroundedReplies)

\* models.py: the messages of the validation errors of the result models.
CitationInvalid == "1 validation error for Citation"
SupportInvalid == "1 validation error for GroundingSupport"
UrlMetadataInvalid == "1 validation error for UrlMetadata"

\* Citation(url=chunk.web.uri if hasattr(chunk.web, "uri") else "",
\*          title=chunk.web.title if hasattr(chunk.web, "title") else None)
Citation(chunk) ==
    [url |-> IF chunk.uri = Absent THEN "" ELSE chunk.uri,
     title |-> IF chunk.title = Absent THEN None ELSE chunk.title]

\* Mutant: a source already cited is not cited again.
RECURSIVE citations_deduplicated(_)
citations_deduplicated(chunks) ==
    IF chunks = <<>> THEN <<>>
    ELSE LET n == Len(chunks)
             rest == citations_deduplicated(SubSeq(chunks, 1, n - 1))
         IN  IF ~chunks[n].web THEN rest
             ELSE IF \E i \in 1..Len(rest) : rest[i] = Citation(chunks[n])
                  THEN rest
             ELSE Append(rest, Citation(chunks[n]))

\* for chunk in metadata.grounding_chunks:
\*     if hasattr(chunk, "web") and chunk.web: citations.append(Citation(...))
RECURSIVE citations_of(_)
citations_of(chunks) ==
    IF chunks = <<>> THEN <<>>
    ELSE IF chunks[1].web
         THEN <<Citation(chunks[1])>> \o citations_of(Tail(chunks))
         ELSE citations_of(Tail(chunks))

\* for support in metadata.grounding_supports:
\*     if hasattr(support, "segment") and support.segment: ...append(...)
RECURSIVE supports_of(_)
supports_of(supports) ==
    IF supports = <<>> THEN <<>>
    ELSE IF supports[1].segment
         THEN <<[text |-> supports[1].text,
                 start_index |-> supports[1].start_index]>>
                  \o supports_of(Tail(supports))
         ELSE supports_of(Tail(supports))

\* UrlMetadata(url=retrieved_url if hasattr(..) else "",
\*             status=url_retrieval_status if hasattr(..) else "unknown")
url_metadata_of(metas) ==
    [i \in 1..Len(metas) |->
        [url |-> IF metas[i].retrieved_url = Absent THEN ""
                 ELSE metas[i].retrieved_url,
         status |-> IF metas[i].url_retrieval_status = Absent THEN "unknown"
                    ELSE metas[i].url_retrieval_status,
         title |-> None]]

\* The exception building the result models raises for a response, None when
\* there is none: url and start_index are required fields (models.py).  The
\* citations are built before the supports.
ParseError(op, r) ==
    IF op = "analyze_urls"
    THEN IF \E i \in 1..Len(r.url_metadata) :
                r.url_metadata[i].retrieved_url = None
         THEN UrlMetadataInvalid ELSE None
    ELSE IF \E i \in 1..Len(r.chunks) : r.chunks[i].web /\ r.chunks[i].uri = None
         THEN CitationInvalid
    ELSE IF \E i \in 1..Len(r.supports) :
                r.supports[i].segment /\ r.supports[i].start_index = None
         THEN SupportInvalid
    ELSE None

\* Mutant: the limit is reached at 20 URLs.
TooManyUrls_inclusive(us) == Len(us) >= MaxUrlsPerRequest

\* if len(urls) > 20
TooManyUrls(us) == Len(us) > MaxUrlsPerRequest

\* Mutant: only the generate_content call is inside the try block.
InTry_generate_only(stage) == stage = "generate"

\* The statements between `try:` and `except Exception as e:`.
InTry(stage) == stage \in {"generate", "parse"}

QuickSearchResult(content, citations, supports, queries, error) ==
    [content |-> content, citations |-> citations,
     grounding_supports |-> supports, search_queries |-> queries,
     error |-> error]

UrlAnalysisResult(us, content, metas, error) ==
    [urls |-> us, content |-> content, url_metadata |-> metas,
     error |-> error]

\* The result of the except branch: error=str(e), everything else empty.
ErrorResult(op, us, message) ==
    IF op = "analyze_urls" THEN UrlAnalysisResult(us, "", <<>>, message)
    ELSE QuickSearchResult("", <<>>, <<>>, <<>>, message)

\* The result of the try block for a response that parses.
SuccessResult(op, us, r) ==
    LET content == IF Truthy(r.text) THEN r.text ELSE ""
    IN  IF op = "analyze_urls"
        THEN UrlAnalysisResult(us, content, url_metadata_of(r.url_metadata),
                               None)
        ELSE QuickSearchResult(content, citations_of(r.chunks),
                               supports_of(r.supports), r.queries, None)

\* The stage of the call that fails, None when none does.
FailedStage(op, r) ==
    IF r.raised THEN "generate"
    ELSE IF ParseError(op, r) # None THEN "parse"
    ELSE None

InitQuick ==
    /\ remote = NoInteraction
    /\ now = 0
    /\ pc = "done"
    /\ interaction_id = None
    /\ poll_interval = 0
    /\ timeout = 0
    /\ start_time = 0
    /\ status = NoStatus
    /\ outcome = "none"
    /\ result = NoResult
    /\ observed = NoInteraction
    /\ fetched = NoInteraction
    /\ first_status = None
    /\ terminal_at = -1
    /\ trace = <<>>
    /\ stream_pc = "exhausted"
    /\ delivered = <<>>
    /\ stream_id = None
    /\ last_event_id = None
    /\ events = <<>>
    /\ cause = <<>>
    /\ fetches = <<>>
    /\ ResultOff
    /\ InputOff
    /\ qs_pc = "ready"
    /\ qs_op \in QuickOps
    /\ urls \in IF qs_op = "quick_search" THEN {<<>>} ELSE UrlLists
    /\ reply = NoReply
    /\ qs_result = None
    /\ remote_calls = 0
    /\ ClientsOff
    /\ FrontOff

\* analyze_urls with more URLs than the limit: the early return.
RejectUrls ==
    /\ qs_pc = "ready"
    /\ qs_op = "analyze_urls"
    /\ TooManyUrls(urls)
    /\ qs_pc' = "returned"
    /\ qs_result' = UrlAnalysisResult(urls, "", <<>>, UrlLimitError)
    /\ UNCHANGED <<qs_op, urls, reply, remote_calls>>
    /\ UNCHANGED <<pollVars, streamVars, resultVars, inputVars, clientVars, frontVars>>

\* One operation from its generate_content call to its return: the call raises
\* or answers, the answer is parsed, and an exception raised inside the try
\* block becomes an error result.
QuickCall ==
    /\ qs_pc = "ready"
    /\ qs_op = "analyze_urls" => ~TooManyUrls(urls)
    /\ \E r \in RepliesFor(qs_op) :
        /\ reply' = r
        /\ remote_calls' = remote_calls + 1
        /\ IF FailedStage(qs_op, r) = None
           THEN /\ qs_pc' = "returned"
                /\ qs_result' = SuccessResult(qs_op, urls, r)
           ELSE IF InTry(FailedStage(qs_op, r))
           THEN /\ qs_pc' = "returned"
                /\ qs_result' =
                       ErrorResult(qs_op, urls,
                                   IF r.raised THEN r.message
                                   ELSE ParseError(qs_op, r))
           ELSE /\ qs_pc' = "raised"
                /\ UNCHANGED qs_result
    /\ UNCHANGED <<qs_op, urls>>
    /\ UNCHANGED <<pollVars, streamVars, resultVars, inputVars, clientVars, frontVars>>

NextQuick ==
    \/ RejectUrls
    \/ QuickCall

SpecQuick == InitQuick /\ [][NextQuick]_vars

\* ------------------------------------------------------------ leaving a wait
\* Mutant: the client cancels the remote task when it stops waiting.
ExitRequests_cancel(how) == {"interactions.cancel"}

\* The requests the client sends the provider when poll_until_complete raises
\* its TimeoutError or when the caller's task is cancelled inside
\* poll_until_complete or stream_research: none (there is no handler, no
\* finally block and no cancel call).
ExitRequests(how) == {}

\* The provider's interaction after it received the requests.
AfterRequests(interaction, requests) ==
    IF "interactions.cancel" \in requests
    THEN [interaction EXCEPT !.status = CANCELLED]
    ELSE interaction

\* A task that is running remotely, with a caller inside poll_until_complete
\* or inside stream_research.
RunningInteractions ==
    [id : {"h1"}, status : {IN_PROGRESS}, error : {None},
     outputs : {<<>>, <<PollReport>>}]

InitCancel ==
    \/ InitPoll /\ remote \in RunningInteractions
    \/ /\ remote \in {r \in RunningInteractions : r.outputs = <<>>}
       /\ now = 0
       /\ pc = "done"
       /\ interaction_id = None
       /\ poll_interval = 0
       /\ timeout = 0
       /\ start_time = 0
       /\ status = NoStatus
       /\ outcome = "none"
       /\ result = NoResult
       /\ observed = NoInteraction
       /\ fetched = NoInteraction
       /\ first_status = None
       /\ terminal_at = -1
       /\ trace = <<>>
       /\ stream_pc = "running"
       /\ delivered = <<>>
       /\ stream_id = None
       /\ last_event_id = None
       /\ events = <<>>
       /\ cause = <<>>
       /\ fetches = <<>>
       /\ ResultOff
       /\ InputOff
       /\ QuickOff
       /\ ClientsOff
       /\ FrontOff
    /\ FrontOff

\* The caller's task is cancelled while poll_until_complete is suspended in
\* get_status, get_result or asyncio.sleep: CancelledError leaves the loop.
AbandonPoll ==
    /\ pc \in {"status", "result", "sleep"}
    /\ pc' = "done"
    /\ outcome' = "CancelledError"
    /\ remote' = AfterRequests(remote, ExitRequests("CancelledError"))
    /\ UNCHANGED <<now, interaction_id, poll_interval, timeout, start_time,
                   status, result, observed, fetched, first_status,
                   terminal_at, trace>>
    /\ UNCHANGED <<streamVars, otherVars>>

\* The consumer stops iterating stream_research, or its task is cancelled:
\* the generator is closed where it is suspended.
AbandonStream ==
    /\ stream_pc = "running"
    /\ stream_pc' = "abandoned"
    /\ remote' = AfterRequests(remote, ExitRequests("GeneratorExit"))
    /\ UNCHANGED <<now, pc, interaction_id, poll_interval, timeout,
                   start_time, status, outcome, result, observed, fetched,
                   first_status, terminal_at, trace>>
    /\ UNCHANGED <<delivered, stream_id, last_event_id, events, cause, fetches,
                   otherVars>>

NextCancel ==
    \/ NextPoll
    \/ NextStream
    \/ AbandonPoll
    \/ AbandonStream

SpecCancel == InitCancel /\ [][NextCancel]_vars

\* ------------------------------------------------------------ client getters
\* The two client classes, each with its module global and its getter.
ClientClasses == {"DeepResearchClient", "QuickSearchClient"}

\* mcp/server.py: async tools of one event loop; adk/tools.py: plain functions
\* called by whatever thread invokes the tool.
Frontends == {"mcp", "adk"}

ThreadIds == 1..MaxThreads

\* A module global that is None is written 0; instances are numbered from 1
\* in the order of their construction.
IdleThread ==
    [pc |-> "idle", class |-> None, local |-> 0, client |-> 0, calls |-> 0]

InitClients ==
    /\ remote = NoInteraction
    /\ now = 0
    /\ pc = "done"
    /\ interaction_id = None
    /\ poll_interval = 0
    /\ timeout = 0
    /\ start_time = 0
    /\ status = NoStatus
    /\ outcome = "none"
    /\ result = NoResult
    /\ observed = NoInteraction
    /\ fetched = NoInteraction
    /\ first_status = None
    /\ terminal_at = -1
    /\ trace = <<>>
    /\ stream_pc = "exhausted"
    /\ delivered = <<>>
    /\ stream_id = None
    /\ last_event_id = None
    /\ events = <<>>
    /\ cause = <<>>
    /\ fetches = <<>>
    /\ ResultOff
    /\ InputOff
    /\ QuickOff
    /\ frontend \in Frontends
    /\ client_global = [c \in ClientClasses |-> 0]
    /\ constructed = [c \in ClientClasses |-> 0]
    /\ threads = [t \in ThreadIds |-> IdleThread]
    /\ FrontOff

\* A tool is invoked: its first statement calls the getter of its class.
Invoke(t) ==
    /\ threads[t].pc = "idle"
    /\ threads[t].calls < MaxCalls
    /\ \E c \in ClientClasses :
          threads' = [threads EXCEPT ![t].pc = "getter", ![t].class = c,
                                     ![t].local = 0, ![t].client = 0]
    /\ UNCHANGED <<frontend, client_global, constructed>>
    /\ UNCHANGED <<pollVars, streamVars, resultVars, inputVars, quickVars,
                   frontVars>>

\* mcp/server.py get_deep_research_client / get_quick_search_client: the
\* getter has no await, so no other task of the event loop runs inside it.
McpGetClient(t) ==
    /\ frontend = "mcp"
    /\ threads[t].pc = "getter"
    /\ LET c == threads[t].class
           fresh == client_global[c] = 0
           inst == IF fresh THEN constructed[c] + 1 ELSE client_global[c]
       IN  /\ constructed' =
                  IF fresh THEN [constructed EXCEPT ![c] = @ + 1]
                  ELSE constructed
           /\ client_global' = [client_global EXCEPT ![c] = inst]
           /\ threads' = [threads EXCEPT ![t].pc = "use", ![t].client = inst]
    /\ UNCHANGED frontend
    /\ UNCHANGED <<pollVars, streamVars, resultVars, inputVars, quickVars,
                   frontVars>>

\* adk/tools.py getter: `if _deep_research_client is None:`
AdkCheck(t) ==
    /\ frontend = "adk"
    /\ threads[t].pc = "getter"
    /\ threads' =
           [threads EXCEPT ![t].pc =
               IF client_global[threads[t].class] = 0 THEN "construct"
               ELSE "return"]
    /\ UNCHANGED <<frontend, client_global, constructed>>
    /\ UNCHANGED <<pollVars, streamVars, resultVars, inputVars, quickVars,
                   frontVars>>

\* adk/tools.py getter: the constructor call DeepResearchClient(...)
AdkConstruct(t) ==
    /\ frontend = "adk"
    /\ threads[t].pc = "construct"
    /\ constructed' = [constructed EXCEPT ![threads[t].class] = @ + 1]
    /\ threads' =
           [threads EXCEPT ![t].pc = "assign",
                           ![t].local = constructed[threads[t].class] + 1]
    /\ UNCHANGED <<frontend, client_global>>
    /\ UNCHANGED <<pollVars, streamVars, resultVars, inputVars, quickVars,
                   frontVars>>

\* adk/tools.py getter: the store `_deep_research_client = ...`
AdkAssign(t) ==
    /\ frontend = "adk"
    /\ threads[t].pc = "assign"
    /\ client_global' =
           [client_global EXCEPT ![threads[t].class] = threads[t].local]
    /\ threads' = [threads EXCEPT ![t].pc = "return"]
    /\ UNCHANGED <<frontend, constructed>>
    /\ UNCHANGED <<pollVars, streamVars, resultVars, inputVars, quickVars,
                   frontVars>>

\* adk/tools.py getter: `return _deep_research_client` reads the global again.
AdkReturn(t) ==
    /\ frontend = "adk"
    /\ threads[t].pc = "return"
    /\ threads' =
           [threads EXCEPT ![t].pc = "use",
                           ![t].client = client_global[threads[t].class]]
    /\ UNCHANGED <<frontend, client_global, constructed>>
    /\ UNCHANGED <<pollVars, streamVars, resultVars, inputVars, quickVars,
                   frontVars>>

\* The tool's operation on `client` ends and the tool returns.
Finish(t) ==
    /\ threads[t].pc = "use"
    /\ threads' = [threads EXCEPT ![t].pc = "idle", ![t].calls = @ + 1]
    /\ UNCHANGED <<frontend, client_global, constructed>>
    /\ UNCHANGED <<pollVars, streamVars, resultVars, inputVars, quickVars,
                   frontVars>>

NextClients ==
    \E t \in ThreadIds :
        \/ Invoke(t)
        \/ McpGetClient(t)
        \/ AdkCheck(t)
        \/ AdkConstruct(t)
        \/ AdkAssign(t)
        \/ AdkReturn(t)
        \/ Finish(t)

SpecClients == InitClients /\ [][NextClients]_vars

\* ------------------------------------------------------------ MCP and ADK tools
\* The deep research tools of mcp/server.py and adk/tools.py.  `wait` is
\* wait_for_completion (the ADK deep_research always waits), `id` the
\* interaction_id argument of the status and result tools.
ToolSet ==
    [frontend : {"mcp"}, name : {"deep_research"}, wait : BOOLEAN, id : {None}]
    \cup [frontend : {"adk"}, name : {"deep_research"}, wait : {TRUE},
          id : {None}]
    \cup [frontend : {"adk"}, name : {"start_deep_research"}, wait : {FALSE},
          id : {None}]
    \cup [frontend : Frontends,
          name : {"get_research_status", "get_research_result"},
          wait : {FALSE}, id : {"h1"}]

\* A text is the sequence of its pieces; an Optional[str] field is NoText or
\* SomeText(pieces).  str(x) of a client-side string:
Text(x) == IF x = None THEN NoText ELSE SomeText(<<x>>)

\* DeepResearchClient.__init__: "API key is required. Set GEMINI_API_KEY ..."
ApiKeyRequired == "API key is required"
\* The message of an exception the provider's SDK raises.
SdkMessage == "503 unavailable"
\* poll_until_complete: f"Research did not complete within {timeout} seconds.
\* Interaction ID: {interaction_id}"
TimeoutMessage(id) ==
    <<"Research did not complete within {timeout} seconds. Interaction ID: ",
      id>>

\* The ResearchResults poll_until_complete hands the tool for handle id.
WaitResults(id) ==
    {[interaction_id |-> id, status |-> COMPLETED, content |-> "report",
      citations |-> SomeList(<<"u1">>), error |-> None],
     [interaction_id |-> id, status |-> FAILED, content |-> None,
      citations |-> NoList, error |-> "quota exceeded"],
     [interaction_id |-> id, status |-> CANCELLED, content |-> None,
      citations |-> NoList, error |-> None]}

\* The ResearchStatus values get_status hands the tool for handle id.
StatusResults(id) ==
    {[interaction_id |-> id, status |-> st, error |-> e] :
        st \in {IN_PROGRESS, FAILED}, e \in {None, "quota exceeded"}}

\* return {"interaction_id": result.interaction_id, ..., "error": result.error}
ResultMapping(r) ==
    [interaction_id |-> r.interaction_id, status |-> r.status,
     content |-> r.content, citations |-> r.citations, error |-> Text(r.error)]

\* return {"interaction_id": status.interaction_id, "status": ..., "error": ..}
StatusMapping(st) ==
    [interaction_id |-> st.interaction_id, status |-> st.status,
     error |-> Text(st.error)]

\* The mapping returned right after a successful start_research.
StartedMapping(t, id) ==
    IF t.frontend = "mcp"
    THEN [interaction_id |-> id, status |-> "in_progress", content |-> None,
          citations |-> NoList, error |-> NoText,
          message |-> "Research started. Use get_research_status to check progress."]
    ELSE [interaction_id |-> id, status |-> "in_progress",
          message |-> "Research started. Use get_research_status to check progress."]

\* Mutant: the timeout mapping names the task in interaction_id.
TimeoutMapping_with_handle(id) ==
    [interaction_id |-> id, status |-> "failed", content |-> None,
     citations |-> NoList, error |-> SomeText(TimeoutMessage(id))]

\* except TimeoutError as e: return {"interaction_id": None, "status":
\* "failed", ..., "error": str(e)}, for the TimeoutError of handle id.
TimeoutMapping(id) ==
    [interaction_id |-> None, status |-> "failed", content |-> None,
     citations |-> NoList, error |-> SomeText(TimeoutMessage(id))]

\* except Exception as e: the mapping of each tool, with its prefix.
FailureMapping(t, message) ==
    IF t.name = "deep_research"
    THEN [interaction_id |-> None, status |-> "failed", content |-> None,
          citations |-> NoList,
          error |-> SomeText(<<"Research failed: ", message>>)]
    ELSE IF t.name = "start_deep_research"
    THEN [interaction_id |-> None, status |-> "failed",
          error |-> SomeText(<<"Failed to start research: ", message>>)]
    ELSE IF t.name = "get_research_status"
    THEN [interaction_id |-> t.id, status |-> "failed",
          error |-> SomeText(<<"Failed to get status: ", message>>)]
    ELSE [interaction_id |-> t.id, status |-> "failed", content |-> None,
          citations |-> NoList,
          error |-> SomeText(<<"Failed to get result: ", message>>)]

\* Mutant: the immediate mode goes through client.research as well.
WaitsForCompletion_always(t) == t.name = "deep_research"

\* if wait_for_completion: client.research(...) else: client.start_research(...)
WaitsForCompletion(t) == t.name = "deep_research" /\ t.wait

\* One entry of the history of client calls: the method and how it ended.
Called(method, how) == [method |-> method, outcome |-> how]

\* Whether the tool's call of its client getter is inside its try block: it
\* is the statement before `try:` (server.py 108, tools.py 125).
GetterInTry(t) == FALSE

InitTools ==
    /\ remote = NoInteraction
    /\ now = 0
    /\ pc = "done"
    /\ interaction_id = None
    /\ poll_interval = 0
    /\ timeout = 0
    /\ start_time = 0
    /\ status = NoStatus
    /\ outcome = "none"
    /\ result = NoResult
    /\ observed = NoInteraction
    /\ fetched = NoInteraction
    /\ first_status = None
    /\ terminal_at = -1
    /\ trace = <<>>
    /\ stream_pc = "exhausted"
    /\ delivered = <<>>
    /\ stream_id = None
    /\ last_event_id = None
    /\ events = <<>>
    /\ cause = <<>>
    /\ fetches = <<>>
    /\ ResultOff
    /\ InputOff
    /\ QuickOff
    /\ ClientsOff
    /\ tool_pc = "idle"
    /\ tool \in ToolSet
    /\ api_key \in BOOLEAN
    /\ tool_client = FALSE
    /\ tool_handle = None
    /\ client_calls = <<>>
    /\ returned = None
    /\ invocations = 0
    /\ PluginOff
    /\ ConsumerOff

\* The host invokes a tool of the front-end the process runs.
InvokeTool ==
    /\ tool_pc \in {"idle", "returned", "raised"}
    /\ invocations < MaxInvocations
    /\ tool' \in {t \in ToolSet : t.frontend = tool.frontend}
    /\ tool_pc' = "getter"
    /\ tool_handle' = None
    /\ client_calls' = <<>>
    /\ returned' = None
    /\ UNCHANGED <<api_key, tool_client, invocations>>
    /\ UNCHANGED <<pollVars, streamVars, resultVars, inputVars, quickVars,
                   clientVars, pluginVars, consumerVars>>

\* The operator sets or unsets GEMINI_API_KEY between invocations.
EnvChange ==
    /\ tool_pc \in {"returned", "raised"}
    /\ invocations < MaxInvocations
    /\ api_key' = ~api_key
    /\ UNCHANGED <<tool_pc, tool, tool_client, tool_handle, client_calls,
                   returned, invocations>>
    /\ UNCHANGED <<pollVars, streamVars, resultVars, inputVars, quickVars,
                   clientVars, pluginVars, consumerVars>>

\* client = get_deep_research_client(): the memoized instance, or a new one,
\* whose constructor raises ValueError without an API key.
ToolGetClient ==
    /\ tool_pc = "getter"
    /\ IF tool_client \/ api_key
       THEN /\ tool_client' = TRUE
            /\ tool_pc' = "call"
            /\ UNCHANGED <<returned, invocations>>
       ELSE IF GetterInTry(tool)
       THEN /\ tool_pc' = "returned"
            /\ returned' = FailureMapping(tool, ApiKeyRequired)
            /\ invocations' = invocations + 1
            /\ UNCHANGED tool_client
       ELSE /\ tool_pc' = "raised"
            /\ invocations' = invocations + 1
            /\ UNCHANGED <<tool_client, returned>>
    /\ UNCHANGED <<tool, api_key, tool_handle, client_calls>>
    /\ UNCHANGED <<pollVars, streamVars, resultVars, inputVars, quickVars,
                   clientVars, pluginVars, consumerVars>>

\* deep_research / start_deep_research: start_research returns a handle; the
\* immediate mode returns it, the waiting mode goes on to poll.
ToolStart ==
    /\ tool_pc = "call"
    /\ tool.name \in {"deep_research", "start_deep_research"}
    /\ client_calls' =
           Append(client_calls, Called("start_research", "returned"))
    /\ \E h \in Handles :
        /\ tool_handle' = h
        /\ IF WaitsForCompletion(tool)
           THEN /\ tool_pc' = "wait"
                /\ UNCHANGED <<returned, invocations>>
           ELSE /\ tool_pc' = "returned"
                /\ returned' = StartedMapping(tool, h)
                /\ invocations' = invocations + 1
    /\ UNCHANGED <<tool, api_key, tool_client>>
    /\ UNCHANGED <<pollVars, streamVars, resultVars, inputVars, quickVars,
                   clientVars, pluginVars, consumerVars>>

\* client.research: poll_until_complete returns a result, raises its
\* TimeoutError, or lets an exception of the provider's SDK through.
ToolWait ==
    /\ tool_pc = "wait"
    /\ tool_pc' = "returned"
    /\ invocations' = invocations + 1
    /\ \/ /\ \E r \in WaitResults(tool_handle) : returned' = ResultMapping(r)
          /\ client_calls' =
                 Append(client_calls, Called("poll_until_complete", "returned"))
       \/ /\ returned' = TimeoutMapping(tool_handle)
          /\ client_calls' =
                 Append(client_calls,
                        Called("poll_until_complete", "TimeoutError"))
       \/ /\ returned' = FailureMapping(tool, SdkMessage)
          /\ client_calls' =
                 Append(client_calls, Called("poll_until_complete", "Exception"))
    /\ UNCHANGED <<tool, api_key, tool_client, tool_handle>>
    /\ UNCHANGED <<pollVars, streamVars, resultVars, inputVars, quickVars,
                   clientVars, pluginVars, consumerVars>>

\* get_research_status / get_research_result: one client call that returns.
ToolCall ==
    /\ tool_pc = "call"
    /\ tool.name \in {"get_research_status", "get_research_result"}
    /\ tool_pc' = "returned"
    /\ invocations' = invocations + 1
    /\ IF tool.name = "get_research_status"
       THEN /\ client_calls' =
                   Append(client_calls, Called("get_status", "returned"))
            /\ \E st \in StatusResults(tool.id) :
                   returned' = StatusMapping(st)
       ELSE /\ client_calls' =
                   Append(client_calls, Called("get_result", "returned"))
            /\ \E r \in WaitResults(tool.id) : returned' = ResultMapping(r)
    /\ UNCHANGED <<tool, api_key, tool_client, tool_handle>>
    /\ UNCHANGED <<pollVars, streamVars, resultVars, inputVars, quickVars,
                   clientVars, pluginVars, consumerVars>>

\* The tool's first client call raises an exception of the provider's SDK.
ToolCallFails ==
    /\ tool_pc = "call"
    /\ tool_pc' = "returned"
    /\ invocations' = invocations + 1
    /\ client_calls' =
           Append(client_calls,
                  Called(IF tool.name = "get_research_status" THEN "get_status"
                         ELSE IF tool.name = "get_research_result"
                         THEN "get_result"
                         ELSE "start_research", "Exception"))
    /\ returned' = FailureMapping(tool, SdkMessage)
    /\ UNCHANGED <<tool, api_key, tool_client, tool_handle>>
    /\ UNCHANGED <<pollVars, streamVars, resultVars, inputVars, quickVars,
                   clientVars, pluginVars, consumerVars>>

NextTools ==
    \/ InvokeTool
    \/ EnvChange
    \/ ToolGetClient
    \/ ToolStart
    \/ ToolWait
    \/ ToolCall
    \/ ToolCallFails

SpecTools == InitTools /\ [][NextTools]_vars

\* ------------------------------------------------------------ plugin tools
\* The tools of dify/tools whose _invoke is modelled.
PluginTools ==
    {"deep_research", "analyze_urls", "get_research_status",
     "get_research_result"}

\* analyze_urls.py MAX_URLS, deep_research.py DEFAULT_POLL_INTERVAL
MAX_URLS == 20
DEFAULT_POLL_INTERVAL == 10

\* tool_parameters after the .get defaults: a missing required parameter reads
\* as "".  `urls` is urls_str: whether it is the empty string, and how many of
\* its comma-separated entries are not blank.  `timeout` is in seconds.
NoParams ==
    [interaction_id |-> "", query |-> "", urls |-> [empty |-> TRUE, count |-> 0],
     wait_for_completion |-> FALSE, timeout |-> 0]
UrlStrings ==
    {[empty |-> TRUE, count |-> 0]}
    \cup [empty : {FALSE}, count : {0, 1, MAX_URLS, MAX_URLS + 1}]
PluginTimeouts == {k * DEFAULT_POLL_INTERVAL : k \in 0..MaxPluginPolls}
PluginParams(t) ==
    CASE t = "deep_research" ->
           {[NoParams EXCEPT !.query = q, !.wait_for_completion = w,
                             !.timeout = d] :
              q \in {"", "q"}, w \in BOOLEAN, d \in PluginTimeouts}
      [] t = "analyze_urls" ->
           {[NoParams EXCEPT !.query = q, !.urls = u] :
              q \in {"", "q"}, u \in UrlStrings}
      [] OTHER ->
           {[NoParams EXCEPT !.interaction_id = i] : i \in {"", "h1"}}

\* The interactions an interactions.get call of a plugin tool can read.
PluginInteractions == {i \in PollInteractions : i.id = "h1"}

\* _get_client: ValueError("Gemini API key is required")
PluginKeyRequired == "Gemini API key is required"

\* create_json_message(record), create_text_message(text): the text is named by
\* the path that formats it.
JsonMessage(record) == [type |-> "json", record |-> record, text |-> None]
TextMessage(path) == [type |-> "text", record |-> <<>>, text |-> path]

\* Mutant: an unrecognized remote status is reported as in progress, as the
\* core client does.
plugin_status_map_as_client(s) ==
    IF s \in ResearchStatusEnum THEN s ELSE IN_PROGRESS

\* get_research_status.py: status_map.get(interaction.status, "unknown")
plugin_status_map(s) ==
    IF s \in ResearchStatusEnum THEN s ELSE "unknown"

\* The paths whose two yields are inside the try block.
PathsInTry ==
    {"started", "completed", "failed", "timeout", "not_completed", "status",
     "analysis"}

\* Mutant: formatting the completed report raises.
FormatRaises_when_completed(path) == path = "completed"

\* Whether building the text message of a path raises: the formatters join
\* strings they have built themselves.
FormatRaises(path) == FALSE

\* The structured record of each path.
MissingRecord(name) == [error |-> name]
TooManyRecord == [error |-> "Maximum {MAX_URLS} URLs allowed"]
StartedRecord(id) ==
    [interaction_id |-> id, status |-> "in_progress",
     message |-> "Research started"]
CompletedRecord(id, interaction) ==
    [interaction_id |-> id, status |-> "completed",
     content |-> IF interaction.outputs # <<>>
                 THEN last_text(interaction.outputs) ELSE None,
     citations |-> all_uris(interaction.outputs)]
FailedRecord(id, interaction) ==
    [interaction_id |-> id, status |-> interaction.status,
     error |-> interaction.error]
TimeoutRecord(id) ==
    [interaction_id |-> id, status |-> "timeout",
     error |-> "Research did not complete within {timeout} seconds"]
NotCompletedRecord(id, interaction) ==
    [interaction_id |-> id, status |-> interaction.status,
     error |-> "Research is not yet completed"]
StatusRecord(id, interaction) ==
    [interaction_id |-> id, status |-> plugin_status_map(interaction.status),
     error |-> error_str(interaction.error)]
AnalysisRecord(p) ==
    [urls |-> p.urls.count, query |-> p.query, content |-> "analysis"]
ErrorRecord(t, p, message) ==
    CASE t = "deep_research" ->
           [interaction_id |-> None, status |-> "error", content |-> None,
            citations |-> <<>>, error |-> message]
      [] t = "get_research_result" ->
           [interaction_id |-> p.interaction_id, status |-> "error",
            content |-> None, citations |-> <<>>, error |-> message]
      [] t = "get_research_status" ->
           [interaction_id |-> p.interaction_id, status |-> "error",
            error |-> message]
      [] OTHER ->
           [urls |-> p.urls.count, query |-> p.query, content |-> None,
            error |-> message]

\* The required parameter that is missing, if any: `if not query`,
\* `if not urls_str`, `if not interaction_id`.
MissingParameter(t, p) ==
    CASE t = "deep_research" ->
           IF p.query = "" THEN "query is required" ELSE None
      [] t = "analyze_urls" ->
           IF p.urls.empty THEN "urls is required"
           ELSE IF p.query = "" THEN "query is required" ELSE None
      [] OTHER ->
           IF p.interaction_id = "" THEN "interaction_id is required" ELSE None

InitPlugin ==
    /\ remote = NoInteraction
    /\ now = 0
    /\ pc = "done"
    /\ interaction_id = None
    /\ poll_interval = 1
    /\ timeout = 0
    /\ start_time = 0
    /\ status = NoStatus
    /\ outcome = "none"
    /\ result = NoResult
    /\ observed = NoInteraction
    /\ fetched = NoInteraction
    /\ first_status = None
    /\ terminal_at = -1
    /\ trace = <<>>
    /\ stream_pc = "exhausted"
    /\ delivered = <<>>
    /\ stream_id = None
    /\ last_event_id = None
    /\ events = <<>>
    /\ cause = <<>>
    /\ fetches = <<>>
    /\ ResultOff
    /\ InputOff
    /\ QuickOff
    /\ ClientsOff
    /\ ToolsOff
    /\ ConsumerOff
    /\ plugin_pc = "ready"
    /\ plugin_tool \in PluginTools
    /\ params \in PluginParams(plugin_tool)
    /\ credentials \in BOOLEAN
    /\ plugin_reply = NoInteraction
    /\ plugin_elapsed = 0
    /\ plugin_path = None
    /\ plugin_error = None
    /\ messages = <<>>

PluginRest ==
    <<pollVars, streamVars, resultVars, inputVars, quickVars, clientVars,
      toolVars, consumerVars>>

\* yield self.create_json_message(record): the generator is suspended before
\* the text message of the same path.
YieldJson(path, record) ==
    /\ messages' = Append(messages, JsonMessage(record))
    /\ plugin_path' = path
    /\ plugin_pc' = "text"

\* An exception inside the try block: control passes to `except Exception`.
Caught(message) ==
    /\ plugin_error' = message
    /\ plugin_pc' = "except"
    /\ UNCHANGED <<messages, plugin_path>>

\* The checks before the try block.
PluginCheck ==
    /\ plugin_pc = "ready"
    /\ IF MissingParameter(plugin_tool, params) # None
       THEN YieldJson("missing",
                      MissingRecord(MissingParameter(plugin_tool, params)))
       ELSE IF plugin_tool = "analyze_urls" /\ params.urls.count > MAX_URLS
       THEN YieldJson("too_many", TooManyRecord)
       ELSE /\ plugin_pc' = "client"
            /\ UNCHANGED <<messages, plugin_path>>
    /\ UNCHANGED <<plugin_tool, params, credentials, plugin_reply,
                   plugin_elapsed, plugin_error, PluginRest>>

\* client = self._get_client()
PluginGetClient ==
    /\ plugin_pc = "client"
    /\ IF credentials
       THEN /\ plugin_pc' = "call"
            /\ UNCHANGED <<messages, plugin_path, plugin_error>>
       ELSE Caught(PluginKeyRequired)
    /\ UNCHANGED <<plugin_tool, params, credentials, plugin_reply,
                   plugin_elapsed, PluginRest>>

\* The first request of the tool returns: interactions.create (deep_research),
\* interactions.get (status, result), generate_content (analyze_urls).
PluginCall ==
    /\ plugin_pc = "call"
    /\ \/ /\ plugin_tool = "deep_research"
          /\ IF params.wait_for_completion
             THEN /\ plugin_pc' = "poll"
                  /\ UNCHANGED <<messages, plugin_path>>
             ELSE YieldJson("started", StartedRecord("h1"))
          /\ UNCHANGED plugin_reply
       \/ /\ plugin_tool = "analyze_urls"
          /\ YieldJson("analysis", AnalysisRecord(params))
          /\ UNCHANGED plugin_reply
       \/ /\ plugin_tool = "get_research_status"
          /\ \E i \in PluginInteractions :
               /\ plugin_reply' = i
               /\ YieldJson("status", StatusRecord(params.interaction_id, i))
       \/ /\ plugin_tool = "get_research_result"
          /\ \E i \in PluginInteractions :
               /\ plugin_reply' = i
               /\ IF i.status # "completed"
                  THEN YieldJson("not_completed",
                                 NotCompletedRecord(params.interaction_id, i))
                  ELSE YieldJson("completed",
                                 CompletedRecord(params.interaction_id, i))
    /\ UNCHANGED <<plugin_tool, params, credentials, plugin_elapsed,
                   plugin_error, PluginRest>>

\* A request of the tool raises inside the try block.
PluginCallFails ==
    /\ plugin_pc \in {"call", "poll"}
    /\ Caught(SdkMessage)
    /\ UNCHANGED <<plugin_tool, params, credentials, plugin_reply,
                   plugin_elapsed, PluginRest>>

\* deep_research: one turn of `while True` up to the sleep.
PluginPoll ==
    /\ plugin_pc = "poll"
    /\ \E i \in PluginInteractions :
         /\ plugin_reply' = i
         /\ IF i.status = "completed"
            THEN YieldJson("completed", CompletedRecord("h1", i))
            ELSE IF i.status \in {"failed", "cancelled"}
            THEN YieldJson("failed", FailedRecord("h1", i))
            ELSE IF plugin_elapsed >= params.timeout
            THEN YieldJson("timeout", TimeoutRecord("h1"))
            ELSE /\ plugin_pc' = "sleep"
                 /\ UNCHANGED <<messages, plugin_path>>
    /\ UNCHANGED <<plugin_tool, params, credentials, plugin_elapsed,
                   plugin_error, PluginRest>>

\* time.sleep(self.DEFAULT_POLL_INTERVAL)
PluginSleep ==
    /\ plugin_pc = "sleep"
    /\ plugin_elapsed' = plugin_elapsed + DEFAULT_POLL_INTERVAL
    /\ plugin_pc' = "poll"
    /\ UNCHANGED <<plugin_tool, params, credentials, plugin_reply, plugin_path,
                   plugin_error, messages, PluginRest>>

\* The generator is resumed after a JSON message: the text message is built
\* and yielded, and _invoke returns.
PluginYieldText ==
    /\ plugin_pc = "text"
    /\ IF plugin_path \in PathsInTry /\ FormatRaises(plugin_path)
       THEN Caught("formatting failed")
       ELSE /\ messages' = Append(messages, TextMessage(plugin_path))
            /\ plugin_pc' = "done"
            /\ UNCHANGED <<plugin_path, plugin_error>>
    /\ UNCHANGED <<plugin_tool, params, credentials, plugin_reply,
                   plugin_elapsed, PluginRest>>

\* except Exception as e: the first of its two yields.
PluginExcept ==
    /\ plugin_pc = "except"
    /\ YieldJson("error", ErrorRecord(plugin_tool, params, plugin_error))
    /\ UNCHANGED <<plugin_tool, params, credentials, plugin_reply,
                   plugin_elapsed, plugin_error, PluginRest>>

NextPlugin ==
    \/ PluginCheck
    \/ PluginGetClient
    \/ PluginCall
    \/ PluginCallFails
    \/ PluginPoll
    \/ PluginSleep
    \/ PluginYieldText
    \/ PluginExcept

SpecPlugin == InitPlugin /\ [][NextPlugin]_vars

\* ------------------------------------------------------------ streaming consumers
\* The consumers of DeepResearchClient.stream_research: the MCP tool
\* stream_research and the dashboard's run_streaming_research.
Consumers == {"mcp", "dashboard"}

\* A ResearchEvent as a consumer reads it: event_type, interaction_id and an
\* Optional[str] content.  The events the client's generator can yield.
StreamEvent(type, id, content) ==
    [event_type |-> type, interaction_id |-> id, content |-> content]
StreamEvents ==
    {StreamEvent("start", "h1", NoText),
     StreamEvent("thought", "h1", SomeText(<<"hm">>)),
     StreamEvent("text_delta", "h1", SomeText(<<>>)),
     StreamEvent("text_delta", "h1", SomeText(<<"foo">>)),
     StreamEvent("text_delta", "h1", SomeText(<<"bar">>)),
     StreamEvent("complete", "h1", NoText),
     StreamEvent("complete", "h1", SomeText(<<"report">>)),
     StreamEvent("error", "h1", SomeText(<<"boom">>))}

\* Python truthiness of an Optional[str].
TruthyText(c) == c.some /\ c.text # <<>>

\* Mutant: a text_delta replaces what has been accumulated.
Accumulate_latest(acc, content) ==
    IF TruthyText(content) THEN content.text ELSE acc

\* if event.content: content_parts.append(event.content), joined by "" at the
\* end; if event.content: accumulated_content += event.content
Accumulate(acc, content) ==
    IF TruthyText(content) THEN acc \o content.text ELSE acc

\* Mutant: the stream must have delivered a complete event.
StatusAtExhaustion_needs_complete(received) ==
    IF \E k \in 1..Len(received) : received[k].event_type = "complete"
    THEN "completed" ELSE "failed"

\* The status MCP stream_research returns after the `async for` loop.
StatusAtExhaustion(received) == "completed"

\* What the dashboard's client.get_result call does: raises, or returns a
\* result without or with content.
FetchOutcomes ==
    {[raised |-> TRUE, content |-> NoText],
     [raised |-> FALSE, content |-> NoText],
     [raised |-> FALSE, content |-> SomeText(<<"report">>)]}

\* session_state.current_research when a run starts: None, or the record of
\* an earlier research of the session.
EarlierResearch ==
    [exists |-> TRUE, interaction_id |-> "h2", status |-> "completed",
     content |-> SomeText(<<"old">>), error |-> NoText]

InitConsumer ==
    /\ remote = NoInteraction
    /\ now = 0
    /\ pc = "done"
    /\ interaction_id = None
    /\ poll_interval = 1
    /\ timeout = 0
    /\ start_time = 0
    /\ status = NoStatus
    /\ outcome = "none"
    /\ result = NoResult
    /\ observed = NoInteraction
    /\ fetched = NoInteraction
    /\ first_status = None
    /\ terminal_at = -1
    /\ trace = <<>>
    /\ stream_pc = "exhausted"
    /\ delivered = <<>>
    /\ stream_id = None
    /\ last_event_id = None
    /\ events = <<>>
    /\ cause = <<>>
    /\ fetches = <<>>
    /\ ResultOff
    /\ InputOff
    /\ QuickOff
    /\ ClientsOff
    /\ ToolsOff
    /\ PluginOff
    /\ consumer_pc = "consuming"
    /\ consumer \in Consumers
    /\ incoming = <<>>
    /\ stream_ends = "open"
    /\ consumer_id = None
    /\ accumulated = <<>>
    /\ thoughts = <<>>
    /\ current_research \in
         IF consumer = "dashboard" THEN {NoResearch, EarlierResearch}
         ELSE {NoResearch}
    /\ consumer_fetches = <<>>
    /\ report = NoReport

ConsumerRest ==
    <<pollVars, streamVars, resultVars, inputVars, quickVars, clientVars,
      toolVars, pluginVars>>

\* mcp/server.py stream_research: one turn of `async for event in ...`.
McpReceive(e) ==
    /\ consumer = "mcp"
    /\ consumer_pc = "consuming"
    /\ stream_ends = "open"
    /\ Len(incoming) < MaxEvents
    /\ incoming' = Append(incoming, e)
    /\ consumer_id' =
         IF e.event_type = "start" THEN e.interaction_id ELSE consumer_id
    /\ accumulated' =
         IF e.event_type = "text_delta"
         THEN Accumulate(accumulated, e.content) ELSE accumulated
    /\ thoughts' =
         IF e.event_type = "thought" /\ TruthyText(e.content)
         THEN Append(thoughts, e.content.text) ELSE thoughts
    /\ IF e.event_type = "error"
       THEN /\ report' = [interaction_id |-> consumer_id, status |-> "failed",
                          content |-> NoText, thoughts |-> thoughts,
                          error |-> e.content]
            /\ consumer_pc' = "returned"
       ELSE UNCHANGED <<report, consumer_pc>>
    /\ UNCHANGED <<consumer, stream_ends, current_research, consumer_fetches,
                   ConsumerRest>>

\* The generator is exhausted: the return after the loop.
McpExhausted ==
    /\ consumer = "mcp"
    /\ consumer_pc = "consuming"
    /\ stream_ends = "open"
    /\ stream_ends' = "exhausted"
    /\ report' = [interaction_id |-> consumer_id,
                  status |-> StatusAtExhaustion(incoming),
                  content |-> SomeText(accumulated), thoughts |-> thoughts,
                  error |-> NoText]
    /\ consumer_pc' = "returned"
    /\ UNCHANGED <<consumer, incoming, consumer_id, accumulated, thoughts,
                   current_research, consumer_fetches, ConsumerRest>>

\* The generator raises (the streaming request or the connection fails):
\* except Exception as e.
McpRaises ==
    /\ consumer = "mcp"
    /\ consumer_pc = "consuming"
    /\ stream_ends = "open"
    /\ stream_ends' = "raised"
    /\ report' = [interaction_id |-> None, status |-> "failed",
                  content |-> NoText, thoughts |-> <<>>,
                  error |-> SomeText(<<"Streaming research failed: ",
                                       SdkMessage>>)]
    /\ consumer_pc' = "returned"
    /\ UNCHANGED <<consumer, incoming, consumer_id, accumulated, thoughts,
                   current_research, consumer_fetches, ConsumerRest>>

\* ui/app.py run_streaming_research, the COMPLETE branch: the final content
\* and the get_result call made for it, if any.
FinalContent(e, acc) ==
    IF TruthyText(e.content) THEN e.content ELSE SomeText(acc)

DashComplete(e) ==
    LET final == FinalContent(e, accumulated)
    IN  IF ~TruthyText(final) /\ Truthy(current_research.interaction_id)
        THEN \E f \in FetchOutcomes :
               /\ consumer_fetches' = Append(consumer_fetches, f)
               /\ current_research' =
                    [current_research EXCEPT
                       !.status = "completed",
                       !.content = IF f.raised THEN final ELSE f.content]
        ELSE /\ current_research' =
                  [current_research EXCEPT !.status = "completed",
                                           !.content = final]
             /\ UNCHANGED consumer_fetches

\* ui/app.py run_streaming_research: one turn of `async for event in ...`.
\* Subscripting session_state.current_research while it is None raises
\* TypeError, which the outer `except Exception` answers by leaving the loop.
DashReceive(e) ==
    /\ consumer = "dashboard"
    /\ consumer_pc = "consuming"
    /\ stream_ends = "open"
    /\ Len(incoming) < MaxEvents
    /\ incoming' = Append(incoming, e)
    /\ accumulated' =
         IF e.event_type = "text_delta"
         THEN Accumulate(accumulated, e.content) ELSE accumulated
    /\ thoughts' =
         IF e.event_type = "thought" /\ TruthyText(e.content)
         THEN Append(thoughts, e.content.text) ELSE thoughts
    /\ CASE e.event_type = "start" ->
              /\ current_research' =
                   [exists |-> TRUE, interaction_id |-> e.interaction_id,
                    status |-> "in_progress", content |-> NoText,
                    error |-> NoText]
              /\ UNCHANGED <<consumer_fetches, consumer_pc>>
         [] e.event_type \in {"complete", "error"}
              /\ ~current_research.exists ->
              /\ consumer_pc' = "returned"
              /\ UNCHANGED <<current_research, consumer_fetches>>
         [] e.event_type = "complete" /\ current_research.exists ->
              /\ DashComplete(e)
              /\ UNCHANGED consumer_pc
         [] e.event_type = "error" /\ current_research.exists ->
              /\ current_research' =
                   [current_research EXCEPT !.status = "failed",
                                            !.error = e.content]
              /\ UNCHANGED <<consumer_fetches, consumer_pc>>
         [] OTHER ->
              UNCHANGED <<current_research, consumer_fetches, consumer_pc>>
    /\ UNCHANGED <<consumer, stream_ends, consumer_id, report, ConsumerRest>>

\* The generator is exhausted, or raises into the outer `except Exception`:
\* run_streaming_research returns.
DashEnds ==
    /\ consumer = "dashboard"
    /\ consumer_pc = "consuming"
    /\ stream_ends = "open"
    /\ stream_ends' \in {"exhausted", "raised"}
    /\ consumer_pc' = "returned"
    /\ UNCHANGED <<consumer, incoming, consumer_id, accumulated, thoughts,
                   current_research, consumer_fetches, report, ConsumerRest>>

NextConsumer ==
    \/ \E e \in StreamEvents : McpReceive(e)
    \/ McpExhausted
    \/ McpRaises
    \/ \E e \in StreamEvents : DashReceive(e)
    \/ DashEnds

SpecConsumer == InitConsumer /\ [][NextConsumer]_vars

\* ------------------------------------------------------------ properties of the polling loop
TerminalStatuses == {COMPLETED, FAILED, CANCELLED}
LastPoll == Polls[Len(Polls)]
Max(S) == CHOOSE m \in S : \A x \in S : x <= m

\* The text of the newest output whose text is non-empty, None when there is none.
NewestText(outputs) ==
    LET idx == {i \in 1..Len(outputs) : Truthy(outputs[i].text)}
    IN  IF idx = {} THEN None ELSE outputs[Max(idx)].text

\* The elapsed time reached the timeout before any poll observed a terminal
\* status: no poll observed one and the timeout has passed, or the first one
\* to observe it returned after the timeout.
ElapsedReachedTimeoutFirst ==
    IF terminal_at = -1 THEN now - start_time >= timeout
    ELSE terminal_at - start_time > timeout

\* C3 as stated: a finished call (one that no remote failure ended) raised
\* TimeoutError if and only if the elapsed time reached the timeout before a
\* status poll observed a terminal status.
C3_TimeoutIffElapsedFirst ==
    (pc = "done" /\ outcome # "RemoteError") =>
        (outcome = "TimeoutError" <=> ElapsedReachedTimeoutFirst)

\* C3 amended: a finished call raised TimeoutError if and only if its last
\* status poll succeeded, returned a non-terminal remote status and ended with
\* the elapsed time at or past the timeout (the timeout is examined only after a
\* non-terminal poll); with poll_interval = 1 and timeout = 2 there are never
\* more than 3 polls, a third poll that returns a non-terminal status raises,
\* and a raise comes at least 2 seconds after the start.
C3_TimeoutCheckedAfterPoll ==
    /\ pc = "done" =>
         (outcome = "TimeoutError" <=>
            /\ Polls # <<>>
            /\ LastPoll.ok
            /\ observed.status \notin TerminalStatuses
            /\ LastPoll.till - start_time >= timeout)
    /\ (poll_interval = 1 /\ timeout = 2) =>
         /\ Len(Polls) <= 3
         /\ outcome = "TimeoutError" => now - start_time >= 2
         /\ (Len(Polls) = 3 /\ LastPoll.ok /\ terminal_at = -1) =>
              outcome = "TimeoutError"

\* C3 witness: poll_interval = 1, timeout = 2, three non-terminal polls, raised.
C3_Witness ==
    /\ pc = "done" /\ outcome = "TimeoutError"
    /\ poll_interval = 1 /\ timeout = 2 /\ Len(Polls) = 3
    /\ terminal_at = -1

\* C4 as stated: a finished call either raised TimeoutError or returned a
\* result with a terminal status; it never ends in another exception.
C4_RaisesOnlyOnTimeout ==
    pc = "done" =>
        \/ outcome = "TimeoutError"
        \/ outcome = "returned" /\ result.status \in TerminalStatuses

\* C5: when the first status poll returns completed the call never sleeps,
\* polls once and does not time out; the result it returns, fetched while the
\* remote is still completed, has status completed, the handle passed in and
\* the newest non-empty text of the remote outputs as content.
C5_AlreadyCompleted ==
    first_status = COMPLETED =>
        /\ Sleeps = <<>>
        /\ Len(Polls) = 1
        /\ outcome # "TimeoutError"
        /\ (outcome = "returned" /\ fetched.status = COMPLETED) =>
             /\ result.status = COMPLETED
             /\ result.interaction_id = interaction_id
             /\ result.content = NewestText(fetched.outputs)

\* C5 witness: completed at the first poll, returned the report that follows a
\* draft, under a handle that differs from the remote object's id.
C5_Witness ==
    /\ pc = "done" /\ outcome = "returned" /\ first_status = COMPLETED
    /\ fetched.status = COMPLETED
    /\ fetched.outputs = <<PollDraft, PollReport>>
    /\ result.content = "report"
    /\ fetched.id # interaction_id

\* C6: once a status poll has returned failed or cancelled the call is over:
\* it returned (did not raise) a result with that status, the handle, the
\* error of that poll, and neither content nor citations.
C6_FailedOrCancelledReturned ==
    (observed.status \in {FAILED, CANCELLED} /\ LastPoll.ok) =>
        /\ pc = "done"
        /\ outcome = "returned"
        /\ result.status = observed.status
        /\ result.interaction_id = interaction_id
        /\ result.error = error_str(observed.error)
        /\ result.content = None
        /\ result.citations = NoList

\* C6 witness: a cancelled task with an error message and outputs, seen on a
\* later poll.
C6_Witness ==
    /\ pc = "done" /\ observed.status = CANCELLED
    /\ observed.error = "quota exceeded"
    /\ observed.outputs = <<PollReport>>
    /\ Len(Polls) = 2 /\ LastPoll.ok

\* C7: in the call's sequence of polls and sleeps, every poll that is followed
\* by anything is followed by a sleep, every sleep asks for exactly
\* poll_interval seconds and sits between two polls, and the next poll starts
\* at least poll_interval after the previous one ended.
C7_OneFixedSleepBetweenPolls ==
    \A i \in 1..Len(trace) :
        /\ (trace[i].op = "poll" /\ i < Len(trace)) => trace[i + 1].op = "sleep"
        /\ trace[i].op = "sleep" =>
             /\ trace[i].dur = poll_interval
             /\ i > 1 /\ trace[i - 1].op = "poll"
             /\ i < Len(trace) =>
                  /\ trace[i + 1].op = "poll"
                  /\ trace[i + 1].at - trace[i - 1].till >= poll_interval

\* C7 witness: three polls, two sleeps between them.
C7_Witness == Len(Polls) = 3 /\ Len(Sleeps) = 2 /\ poll_interval = 2

\* C10: the status a get_status call returned is one of the four canonical
\* values: the remote status itself when that is canonical, in_progress
\* otherwise; and the handle returned is the one asked for.
C10_StatusMapping ==
    (Polls # <<>> /\ LastPoll.ok) =>
        /\ status.status \in ResearchStatusEnum
        /\ observed.status \in ResearchStatusEnum =>
             status.status = observed.status
        /\ observed.status \notin ResearchStatusEnum =>
             status.status = IN_PROGRESS
        /\ status.interaction_id = interaction_id

\* C10 witness: an unrecognized remote status was read and reported in_progress,
\* on an interaction whose own id differs from the handle asked for.
C10_Witness ==
    /\ Polls # <<>> /\ LastPoll.ok
    /\ observed.status = "requires_action"
    /\ status.status = IN_PROGRESS
    /\ observed.id # interaction_id

\* ------------------------------------------------------------ properties of the stream
TerminalEvents == {"complete", "error"}

\* The indices of the events chunk n caused, and the get_result calls made for it.
EventsOf(n) == {i \in 1..Len(events) : cause[i] = n}
FetchesOf(n) == {k \in 1..Len(fetches) : fetches[k].chunk = n}

\* C1 as stated: no event follows a complete or error event.
C1_NothingAfterTerminal ==
    \A i \in 1..Len(events) :
        events[i].event_type \in TerminalEvents => i = Len(events)

\* C2 as stated: once the provider's stream is exhausted the events are at most
\* one start, which is first, then thought and text_delta events only, then
\* exactly one complete or error, which is last.
C2_WellFormedWhenExhausted ==
    stream_pc = "exhausted" =>
        /\ events # <<>>
        /\ events[Len(events)].event_type \in TerminalEvents
        /\ \A i \in 1..Len(events) :
             /\ events[i].event_type = "start" => i = 1
             /\ events[i].event_type \in TerminalEvents => i = Len(events)
             /\ (1 < i /\ i < Len(events)) =>
                  events[i].event_type \in {"thought", "text_delta"}

\* The content a completion chunk carries itself: the newest non-empty text of
\* its interaction's outputs.
OwnText(chunk) ==
    IF chunk.has_interaction THEN NewestText(chunk.outputs) ELSE None

\* C8: every completion chunk yields exactly one complete event. If the chunk's
\* own outputs hold a non-empty text, that text is the event's content and no
\* get_result call is made. Otherwise at most one get_result call is made
\* (exactly one when the handle is known, none when it is not); the event's
\* content is what that call returned, and is absent when the call failed,
\* returned nothing or was not made.
C8_CompletionContent ==
    \A n \in 1..Len(delivered) :
        delivered[n].event_type = "interaction.complete" =>
            /\ Cardinality(EventsOf(n)) = 1
            /\ \A i \in EventsOf(n) :
                 /\ events[i].event_type = "complete"
                 /\ IF OwnText(delivered[n]) # None
                    THEN /\ FetchesOf(n) = {}
                         /\ events[i].content = OwnText(delivered[n])
                    ELSE /\ Cardinality(FetchesOf(n)) =
                              (IF events[i].interaction_id # None THEN 1 ELSE 0)
                         /\ \A k \in FetchesOf(n) :
                              events[i].content =
                                  (IF fetches[k].failed
                                      \/ fetches[k].content \in {None, ""}
                                   THEN None ELSE fetches[k].content)
                         /\ FetchesOf(n) = {} => events[i].content = None

\* C8 witness: one completion chunk took its content from its own outputs, one
\* had none and its get_result call failed, and both yielded a complete event.
C8_Witness ==
    /\ \E n \in 1..Len(delivered) : \E i \in EventsOf(n) :
         /\ delivered[n].event_type = "interaction.complete"
         /\ events[i].content = "report"
         /\ events[i].interaction_id # None
    /\ \E n \in 1..Len(delivered) : \E k \in FetchesOf(n) : \E i \in EventsOf(n) :
         /\ fetches[k].failed
         /\ events[i].event_type = "complete"

IsTextChunk(c) == c.event_type = "content.delta" /\ c.delta_type = "text"
IsThoughtChunk(c) ==
    c.event_type = "content.delta" /\ c.delta_type = "thought_summary"
DeltaEventType(c) == IF IsTextChunk(c) THEN "text_delta" ELSE "thought"

\* C9: the text_delta and thought events are, in order, one per answer-text or
\* reasoning-summary delta chunk delivered: text_delta with the chunk's text for
\* an answer-text delta, thought for a reasoning-summary delta.
C9_DeltasInChunkOrder ==
    LET chunks == SelectSeq(delivered,
                            LAMBDA c : IsTextChunk(c) \/ IsThoughtChunk(c))
        evs == SelectSeq(events,
                         LAMBDA e : e.event_type \in {"text_delta", "thought"})
    IN  /\ Len(evs) = Len(chunks)
        /\ \A i \in 1..Len(chunks) :
             /\ evs[i].event_type = DeltaEventType(chunks[i])
             /\ IsTextChunk(chunks[i]) => evs[i].content = chunks[i].text
             /\ (IsThoughtChunk(chunks[i]) /\ chunks[i].text # Absent) =>
                  evs[i].content = chunks[i].text

\* C9 witness: text "foo", a thought summary without content text, text "bar".
C9_Witness ==
    /\ Len(events) = 3
    /\ events[1].event_type = "text_delta" /\ events[1].content = "foo"
    /\ events[2].event_type = "thought" /\ events[2].content = DeltaRepr
    /\ events[3].event_type = "text_delta" /\ events[3].content = "bar"

\* ------------------------------------------------------------ properties of the direct calls
\* C11: get_result returns no content and no citations whenever the status it
\* reports is not completed, whatever outputs and cited sources the
\* interaction carries.
C11_NothingUnlessCompleted ==
    (call_pc = "result" /\ result.status # COMPLETED) =>
        /\ result.content = None
        /\ result.citations = NoList

\* A failed interaction that carries a cited report was read.
C11_Witness ==
    /\ call_pc = "result"
    /\ fetched.status = FAILED
    /\ fetched.outputs = <<[text |-> "report", uris |-> <<"u1">>]>>
    /\ result.status = FAILED
    /\ result.content = None

\* C12: for a completed interaction the content get_result returns is the text
\* of the newest output whose text is non-empty; outputs whose text is missing,
\* None or empty are skipped, and the content is None when no output qualifies.
C12_NewestNonEmptyText ==
    (call_pc = "result" /\ fetched.status = "completed") =>
        /\ result.status = COMPLETED
        /\ result.content = NewestText(fetched.outputs)
        /\ (result.content = None) <=>
               (\A i \in 1..Len(fetched.outputs) :
                    fetched.outputs[i].text \in {Absent, None, ""})

\* The newest output has no text, the one before it is the report, and an
\* older draft is ignored.
C12_Witness ==
    /\ call_pc = "result"
    /\ fetched.status = "completed"
    /\ Len(fetched.outputs) = 3
    /\ fetched.outputs[1].text = "draft"
    /\ fetched.outputs[2].text = "report"
    /\ fetched.outputs[3].text = None
    /\ result.content = "report"

\* The text of the oldest output whose text is non-empty, None when there is none.
OldestText(outputs) ==
    LET idx == {i \in 1..Len(outputs) : Truthy(outputs[i].text)}
    IN  IF idx = {} THEN None
        ELSE outputs[CHOOSE m \in idx : \A x \in idx : m <= x].text

\* C13 as stated: ask_followup returns the first non-empty text among the
\* outputs of the follow-up interaction, or the empty string when there is none.
C13_FirstNonEmptyText ==
    call_pc = "answer" =>
        answer = IF OldestText(fetched.outputs) = None THEN ""
                 ELSE OldestText(fetched.outputs)

\* C13 amended: ask_followup returns the last non-empty text among the outputs
\* of the follow-up interaction (they are scanned newest-first and the first
\* hit wins), or the empty string when there is none.
C13_LastNonEmptyText ==
    call_pc = "answer" =>
        answer = IF NewestText(fetched.outputs) = None THEN ""
                 ELSE NewestText(fetched.outputs)

\* The follow-up interaction carries two different texts and the newer one
\* was returned.
C13_Witness ==
    /\ call_pc = "answer"
    /\ Len(fetched.outputs) = 2
    /\ fetched.outputs[1].text = "draft"
    /\ fetched.outputs[2].text = "report"
    /\ answer = "report"

\* ------------------------------------------------------------ properties of the prompt
\* Format instructions were passed and are not empty.
HasFormat == format_instructions.some /\ format_instructions.text # <<>>

C15_BuildInputAsTested ==
    build_pc = "built" =>
        /\ ~format_instructions.some => built = query
        /\ HasFormat =>
               built = query \o <<NL, NL>> \o format_instructions.text

\* ------------------------------------------------------------ properties of QuickSearchClient
GroundedOps == {"quick_search", "search_and_analyze"}

\* The response carries an element the result models reject: a web source
\* whose uri is None, a segment whose start_index is None, a URL metadata
\* entry whose retrieved_url is None.
ResponseInvalid ==
    \/ \E i \in 1..Len(reply.chunks) :
          reply.chunks[i].web /\ reply.chunks[i].uri = None
    \/ \E i \in 1..Len(reply.supports) :
          reply.supports[i].segment /\ reply.supports[i].start_index = None
    \/ \E i \in 1..Len(reply.url_metadata) :
          reply.url_metadata[i].retrieved_url = None

\* The result carries no content and no list entry.
ResultEmpty ==
    /\ qs_result.content = ""
    /\ IF qs_op = "analyze_urls" THEN qs_result.url_metadata = <<>>
       ELSE /\ qs_result.citations = <<>>
            /\ qs_result.search_queries = <<>>
            /\ qs_result.grounding_supports = <<>>

\* C16: quick_search, analyze_urls and search_and_analyze never raise: when the
\* generate_content call raises, or the parsing of its response fails, the
\* operation returns a result whose error is the failure's message, whose
\* content is empty and whose citations, search queries and URL metadata are
\* empty; when neither fails the error is None.
C16_FailuresAreReturned ==
    /\ qs_pc # "raised"
    /\ (qs_pc = "returned" /\ remote_calls > 0) =>
          /\ reply.raised =>
                qs_result.error = reply.message /\ ResultEmpty
          /\ (~reply.raised /\ ResponseInvalid) =>
                /\ qs_result.error \in
                       {CitationInvalid, SupportInvalid, UrlMetadataInvalid}
                /\ ResultEmpty
          /\ (~reply.raised /\ ~ResponseInvalid) => qs_result.error = None

\* A response with a text and an unusable web source was answered with an
\* error result.
C16_Witness ==
    /\ qs_pc = "returned"
    /\ qs_op = "quick_search"
    /\ ~reply.raised
    /\ reply.text = "answer"
    /\ reply.chunks = <<WebChunk("a", "A"), WebChunk(None, "A")>>
    /\ qs_result.error = CitationInvalid
    /\ qs_result.content = ""

\* C17: analyze_urls with more than 20 URLs returns a result whose error names
\* the 20-URL limit, with empty content and empty URL metadata, and makes no
\* remote call; with 20 URLs or fewer it makes exactly one remote call.
C17_UrlLimit ==
    (qs_op = "analyze_urls" /\ qs_pc # "ready") =>
        IF Len(urls) > MaxUrlsPerRequest
        THEN /\ qs_pc = "returned"
             /\ qs_result.error = UrlLimitError
             /\ qs_result.content = ""
             /\ qs_result.url_metadata = <<>>
             /\ remote_calls = 0
        ELSE remote_calls = 1

\* analyze_urls returned for 21 URLs.
C17_Witness ==
    /\ qs_op = "analyze_urls"
    /\ qs_pc = "returned"
    /\ Len(urls) = MaxUrlsPerRequest + 1
    /\ qs_result.error = UrlLimitError
    /\ remote_calls = 0

\* The positions of the grounding chunks that have a web source.
WebPositions == {i \in 1..Len(reply.chunks) : reply.chunks[i].web}

\* The k-th of them, in the provider's order.
WebPosition(k) ==
    CHOOSE i \in WebPositions :
        Cardinality({j \in WebPositions : j <= i}) = k

\* C18: a quick_search or search_and_analyze that succeeds returns one Citation
\* per grounding chunk that has a web source, in the provider's chunk order,
\* duplicates kept, nothing re-ranked.
C18_CitationsInChunkOrder ==
    (qs_op \in GroundedOps /\ qs_pc = "returned" /\ remote_calls > 0
       /\ qs_result.error = None) =>
        /\ Len(qs_result.citations) = Cardinality(WebPositions)
        /\ \A k \in 1..Len(qs_result.citations) :
              /\ qs_result.citations[k].url =
                     (IF reply.chunks[WebPosition(k)].uri = Absent THEN ""
                      ELSE reply.chunks[WebPosition(k)].uri)
              /\ qs_result.citations[k].title =
                     (IF reply.chunks[WebPosition(k)].title = Absent THEN None
                      ELSE reply.chunks[WebPosition(k)].title)

\* The provider cited source b, then source a, then source b again.
C18_Witness ==
    /\ qs_op = "search_and_analyze"
    /\ qs_pc = "returned"
    /\ reply.chunks =
           <<WebChunk("b", None), WebChunk("a", "A"), WebChunk("b", None)>>
    /\ qs_result.error = None
    /\ qs_result.citations =
           <<[url |-> "b", title |-> None], [url |-> "a", title |-> "A"],
             [url |-> "b", title |-> None]>>

\* ------------------------------------------------------------ properties of leaving a wait
\* C19: no step of the client changes the remote task: when
\* poll_until_complete times out, and when the caller abandons
\* poll_until_complete or stream_research, the interaction the provider holds
\* is what it was, and only the provider changes it.
C19_ClientLeavesRemoteTask ==
    [][(\/ pc' # pc
        \/ now' # now
        \/ trace' # trace
        \/ outcome' # outcome
        \/ stream_pc' # stream_pc
        \/ delivered' # delivered
        \/ events' # events) => remote' = remote]_vars

\* The caller was cancelled after two polls, and the task is still running.
C19_Witness ==
    /\ outcome = "CancelledError"
    /\ Len(Polls) = 2
    /\ remote.status = IN_PROGRESS

\* ------------------------------------------------------------ properties of the client getters
\* C20: in the MCP server and in the ADK tool module at most one instance of
\* each client class is ever constructed in the process, however many tools
\* are invoked and however they overlap, and every invocation uses that one
\* instance.
C20_OneClientPerClass ==
    /\ \A c \in ClientClasses : constructed[c] <= 1
    /\ \A t \in ThreadIds :
          threads[t].pc = "use" => threads[t].client = 1

\* The same under the MCP server's event loop alone.
McpOneClientPerClass == frontend = "mcp" => C20_OneClientPerClass

\* ------------------------------------------------------------ properties of the MCP and ADK tools
\* The key set of each tool's mapping on its `except Exception` path.
ExpectedKeys(name) ==
    IF name \in {"deep_research", "get_research_result"}
    THEN {"interaction_id", "status", "content", "citations", "error"}
    ELSE {"interaction_id", "status", "error"}

\* C21: the mapping a tool returns has the same key set on every path of that
\* tool; for deep research it is exactly interaction_id, status, content,
\* citations, error.
C21_FixedKeySets ==
    tool_pc = "returned" => DOMAIN returned = ExpectedKeys(tool.name)

\* The invocation is an MCP deep_research with wait_for_completion=False
\* whose submission succeeded.
ImmediateReturn ==
    /\ tool_pc = "returned"
    /\ tool.frontend = "mcp"
    /\ tool.name = "deep_research"
    /\ ~tool.wait
    /\ tool_handle # None

\* C22: MCP deep_research with wait_for_completion=False returns the handle
\* with status in_progress right after a successful submission: the only
\* client call it has made is start_research.
C22_FireAndForget ==
    ImmediateReturn =>
        /\ returned.interaction_id = tool_handle
        /\ returned.status = "in_progress"
        /\ client_calls = <<Called("start_research", "returned")>>

\* A fire-and-forget submission returned handle h2.
C22_Witness ==
    /\ ImmediateReturn
    /\ tool_handle = "h2"
    /\ returned.interaction_id = "h2"

\* C24: no tool invocation raises to its host, and a failure is returned as a
\* mapping whose error field contains the underlying message.
C24_NoToolRaises ==
    /\ tool_pc # "raised"
    /\ (tool_pc = "returned" /\ Len(client_calls) > 0
          /\ client_calls[Len(client_calls)].outcome = "Exception") =>
             /\ returned.error.some
             /\ \E i \in 1..Len(returned.error.text) :
                   returned.error.text[i] = SdkMessage

\* The invocation is a deep_research that waited and whose wait timed out.
WaitTimedOut ==
    /\ tool_pc = "returned"
    /\ tool.name = "deep_research"
    /\ client_calls =
           <<Called("start_research", "returned"),
             Called("poll_until_complete", "TimeoutError")>>

\* C29: when MCP or ADK deep_research waits and the wait times out after a
\* successful submission, the mapping has status "failed" and interaction_id
\* None; the handle of the task appears only inside the error text.
C29_TimeoutHidesHandle ==
    WaitTimedOut =>
        /\ returned.status = "failed"
        /\ returned.interaction_id = None
        /\ returned.content = None
        /\ returned.citations = NoList
        /\ returned.error.some
        /\ \E i \in 1..Len(returned.error.text) :
              returned.error.text[i] = tool_handle

\* The ADK deep_research timed out waiting for h1.
C29_Witness ==
    /\ WaitTimedOut
    /\ tool.frontend = "adk"
    /\ tool_handle = "h1"
    /\ returned.interaction_id = None

StatusReported ==
    /\ plugin_pc = "done"
    /\ plugin_tool = "get_research_status"
    /\ plugin_path = "status"

\* C28: for every remote status value, recognized or not, the plugin's
\* get_research_status reports the status the core client's get_status
\* reports for the same interaction.
C28_StatusAsClient ==
    StatusReported =>
        messages[1].record.status =
            get_status(params.interaction_id, plugin_reply).status

\* ------------------------------------------------------------ properties of the streaming consumers
\* The stream was start(H), text_delta events only, then a complete event
\* without content, and the consumer has returned after the stream's end.
RECURSIVE DeltaTexts(_)
DeltaTexts(received) ==
    IF received = <<>> THEN <<>>
    ELSE (IF received[1].event_type = "text_delta" /\ received[1].content.some
          THEN received[1].content.text ELSE <<>>)
         \o DeltaTexts(Tail(received))

DeltasThenBareComplete ==
    /\ consumer_pc = "returned"
    /\ stream_ends = "exhausted"
    /\ Len(incoming) >= 2
    /\ incoming[1].event_type = "start"
    /\ incoming[Len(incoming)] = StreamEvent("complete", "h1", NoText)
    /\ \A k \in 2..(Len(incoming) - 1) : incoming[k].event_type = "text_delta"

\* The final content the consumer reports.
ReportedContent ==
    IF consumer = "mcp" THEN report.content ELSE current_research.content

\* C25 as stated: after start(H), text_delta events and a complete event with
\* no content, either consumer reports as final content the concatenation of
\* the text_delta contents in arrival order.
C25_ConcatenationReported ==
    DeltasThenBareComplete =>
        ReportedContent = SomeText(DeltaTexts(incoming))

\* C25, amended: MCP stream_research always reports the concatenation; the
\* dashboard reports it when it is not empty, and otherwise reports what its
\* one get_result call returned (the empty string if that call raised).
C25_ConcatenationUnlessEmpty ==
    DeltasThenBareComplete =>
        IF consumer = "mcp" \/ DeltaTexts(incoming) # <<>>
        THEN /\ ReportedContent = SomeText(DeltaTexts(incoming))
             /\ consumer_fetches = <<>>
        ELSE /\ Len(consumer_fetches) = 1
             /\ ReportedContent =
                  IF consumer_fetches[1].raised THEN SomeText(<<>>)
                  ELSE consumer_fetches[1].content

\* The dashboard received "foo" and "bar" and reports "foobar".
C25_Witness ==
    /\ DeltasThenBareComplete
    /\ consumer = "dashboard"
    /\ DeltaTexts(incoming) = <<"foo", "bar">>
    /\ ReportedContent = SomeText(<<"foo", "bar">>)

\* Positions of the error events received.
ErrorPositions ==
    {k \in 1..Len(incoming) : incoming[k].event_type = "error"}

\* C30: MCP stream_research returns status "completed" exactly when the
\* client's event stream was exhausted without an error event having been
\* received, whether or not a complete event was received; at the first error
\* event it returns "failed" at once, having consumed no event after it.
C30_CompletedUnlessError ==
    consumer = "mcp" =>
        /\ ErrorPositions \subseteq {Len(incoming)}
        /\ ErrorPositions # {} =>
              /\ consumer_pc = "returned"
              /\ report.status = "failed"
              /\ report.error = incoming[Len(incoming)].content
        /\ consumer_pc = "returned" =>
              /\ report.status \in {"completed", "failed"}
              /\ report.status = "completed" <=>
                    stream_ends = "exhausted" /\ ErrorPositions = {}

\* The stream ended after text without any complete event, and the tool
\* returned "completed".
C30_Witness ==
    /\ consumer = "mcp"
    /\ consumer_pc = "returned"
    /\ stream_ends = "exhausted"
    /\ report.status = "completed"
    /\ accumulated # <<>>
    /\ \A k \in 1..Len(incoming) : incoming[k].event_type # "complete"

\* ------------------------------------------------------------ properties of the polling loop under remote changes
\* C26: every Task Result poll_until_complete returns has a terminal status
\* (completed, failed or cancelled) and carries the handle passed in, whatever
\* the remote does between the loop's get_status call and its get_result call.
C26_ReturnedIsTerminal ==
    outcome = "returned" =>
        /\ result.status \in TerminalStatuses
        /\ result.interaction_id = interaction_id

\* No status call of the loop has taken any time.
StatusCallsInstant == \A k \in 1..Len(Polls) : Polls[k].dur = 0

\* timeout / poll_interval rounded up.
CeilingOf(a, b) == (a + b - 1) \div b

\* C27 as stated: the call always ends, and when status calls take no time it
\* makes at most floor(timeout / poll_interval) + 1 status polls.
C27_EndsWithinFloorPolls ==
    /\ <>(pc = "done")
    /\ [](StatusCallsInstant =>
            Len(Polls) <= (timeout \div poll_interval) + 1)

\* C27, amended: the call always ends, and when status calls take no time it
\* makes at most ceiling(timeout / poll_interval) + 1 status polls.
C27_EndsWithinCeilingPolls ==
    /\ <>(pc = "done")
    /\ [](StatusCallsInstant =>
            Len(Polls) <= CeilingOf(timeout, poll_interval) + 1)

\* The remote kept reporting an unrecognized status, the status calls took no
\* time, and the call raised TimeoutError after more polls than
\* floor(timeout / poll_interval) + 1.
C27_Witness ==
    /\ pc = "done"
    /\ outcome = "TimeoutError"
    /\ StatusCallsInstant
    /\ observed.status = "requires_action"
    /\ Len(Polls) = CeilingOf(timeout, poll_interval) + 1
    /\ Len(Polls) > (timeout \div poll_interval) + 1

=============================================================================
